---- MODULE Spec2Model ----
(***************************************************************************)
(* Model of the single-cell preprocessing pipeline of                      *)
(* Clustering-Benchmarking-scRNAseq: the gene / cell filters               *)
(* (src/preprocessing/filters.py), the normalisation transforms            *)
(* (src/preprocessing/transforms.py) and the orchestrator                  *)
(* (src/preprocessing/preprocessing.py).                                   *)
(*                                                                         *)
(* A DataFrame is a record [index, columns, val]: index is the sequence of *)
(* cell identifiers, columns the sequence of gene names and val maps       *)
(* <<cell, gene>> to a value.  A value is a record [k, n, d]: k = "num" is *)
(* the exact rational n/d (d > 0, lowest terms), "nan", "inf" and "neginf" *)
(* are the IEEE specials and "log10" is the (irrational) decimal logarithm *)
(* of n/d.  Floating point rounding is abstracted to exact arithmetic.     *)
(* Prefix matching on gene names is computed character by character.       *)
(***************************************************************************)
EXTENDS Integers, Sequences, FiniteSets, TLC

\* ------------------------------------------------------------------ bounds
MaxCells == 2
MaxCount == 2

\* ------------------------------------------------------- exact arithmetic
RECURSIVE Gcd(_, _)
Gcd(a, b) == IF b = 0 THEN a ELSE Gcd(b, a % b)

Abs(x) == IF x < 0 THEN -x ELSE x

\* the rational n/d in lowest terms (d > 0)
Num(n, d) ==
    LET g == Gcd(Abs(n), d)
    IN  [k |-> "num", n |-> n \div g, d |-> d \div g]

Int2V(i) == [k |-> "num", n |-> i, d |-> 1]
Zero == Int2V(0)
NaN == [k |-> "nan", n |-> 0, d |-> 1]
PosInf == [k |-> "inf", n |-> 0, d |-> 1]
NegInf == [k |-> "neginf", n |-> 0, d |-> 1]

IsNum(v) == v.k = "num"
IsNaN(v) == v.k = "nan"

VAdd(a, b) ==
    IF IsNum(a) /\ IsNum(b) THEN Num(a.n * b.d + b.n * a.d, a.d * b.d)
    ELSE IF a.k = "inf" /\ b.k \in {"num", "inf"} THEN PosInf
    ELSE IF b.k = "inf" /\ a.k \in {"num", "inf"} THEN PosInf
    ELSE IF a.k = "neginf" /\ b.k \in {"num", "neginf"} THEN NegInf
    ELSE IF b.k = "neginf" /\ a.k \in {"num", "neginf"} THEN NegInf
    ELSE NaN

\* IEEE multiplication by a finite number (0 * inf = nan)
VMul(a, b) ==
    IF IsNum(a) /\ IsNum(b) THEN Num(a.n * b.n, a.d * b.d)
    ELSE IF a.k \in {"inf", "neginf"} /\ IsNum(b) /\ b.n # 0
         THEN IF (a.k = "inf") = (b.n > 0) THEN PosInf ELSE NegInf
    ELSE NaN

\* IEEE division of numbers: 0/0 = nan, x/0 = +-inf
VDiv(a, b) ==
    IF IsNum(a) /\ IsNum(b)
    THEN IF b.n = 0
         THEN IF a.n = 0 THEN NaN ELSE IF a.n > 0 THEN PosInf ELSE NegInf
         ELSE IF b.n > 0 THEN Num(a.n * b.d, a.d * b.n)
                         ELSE Num(-(a.n * b.d), a.d * (-b.n))
    ELSE NaN

\* a < b on values; any comparison with nan is false
VLess(a, b) ==
    IF IsNum(a) /\ IsNum(b) THEN a.n * b.d < b.n * a.d
    ELSE IF IsNaN(a) \/ IsNaN(b) THEN FALSE
    ELSE IF a.k = "neginf" THEN b.k # "neginf"
    ELSE IF b.k = "inf" THEN a.k # "inf"
    ELSE FALSE

VLeq(a, b) == IF IsNaN(a) \/ IsNaN(b) THEN FALSE ELSE ~VLess(b, a)

\* ------------------------------------------------------------- DataFrames
Range(s) == {s[i] : i \in 1..Len(s)}

RECURSIVE SumSeq(_)
SumSeq(s) == IF s = <<>> THEN Zero ELSE VAdd(Head(s), SumSeq(Tail(s)))

Frame(idx, cols, f) == [index |-> idx, columns |-> cols, val |-> f]

\* data.loc[:, mask] / data[genes]: keep the columns satisfying keep, in order
SelectColumns(data, keep) ==
    LET cols == SelectSeq(data.columns, LAMBDA g : g \in keep)
    IN  Frame(data.index, cols,
              [p \in Range(data.index) \X Range(cols) |-> data.val[p]])

\* data.loc[mask]: keep the rows satisfying keep, in order
SelectRows(data, keep) ==
    LET idx == SelectSeq(data.index, LAMBDA c : c \in keep)
    IN  Frame(idx, data.columns,
              [p \in Range(idx) \X Range(data.columns) |-> data.val[p]])

\* data[genes].sum(axis=1) for one cell
RowSum(data, c, genes) ==
    SumSeq([i \in 1..Len(genes) |-> data.val[<<c, genes[i]>>]])

\* data.max(axis=0) for one gene (nan for a frame without rows)
ColMax(data, g) ==
    IF data.index = <<>> THEN NaN
    ELSE CHOOSE v \in {data.val[<<c, g>>] : c \in Range(data.index)} :
            \A c \in Range(data.index) : VLeq(data.val[<<c, g>>], v)

\* ------------------------------------------------------------- gene names
MT_PREFIX == <<"M", "T", "-">>

\* the characters of the gene names used as column labels
Chars(name) ==
    CASE name = "MT-CO1" -> <<"M", "T", "-", "C", "O", "1">>
      [] name = "mt-Co1" -> <<"m", "t", "-", "C", "o", "1">>
      [] name = "ACTB" -> <<"A", "C", "T", "B">>
      [] name = "GAPDH" -> <<"G", "A", "P", "D", "H">>
      [] name = "BAX" -> <<"B", "A", "X">>
      [] name = "Bax" -> <<"B", "a", "x">>
      [] name = "Target_1" -> <<"T", "a", "r", "g", "e", "t", "_", "1">>
      [] name = "Other_1" -> <<"O", "t", "h", "e", "r", "_", "1">>
      [] name = "High_Expr" -> <<"H", "i", "g", "h", "_", "E", "x", "p", "r">>
      [] name = "Binary" -> <<"B", "i", "n", "a", "r", "y">>
      [] name = "Zero" -> <<"Z", "e", "r", "o">>
      [] name = "Ghost_Gene" -> <<"G", "h", "o", "s", "t", "_", "G", "e", "n", "e">>
      [] OTHER -> <<"?">>

\* str.startswith: case-sensitive, character by character
StartsWith(name, prefix) ==
    /\ Len(Chars(name)) >= Len(prefix)
    /\ \A i \in 1..Len(prefix) : Chars(name)[i] = prefix[i]

\* scprep.select.get_gene_set(data, starts_with=prefix): the columns whose
\* name starts with prefix, in column order
get_gene_set(data, prefix) ==
    SelectSeq(data.columns, LAMBDA g : StartsWith(g, prefix))

\* ------------------------------------------- rare genes (legacy pipeline)
\* scprep.filter.filter_rare_genes(data, cutoff=0, min_cells=min_cells): keep
\* the genes detected (count > 0) in at least min_cells cells
filter_rare_genes(data, min_cells) ==
    LET detected(g) == {c \in Range(data.index) : VLess(Zero, data.val[<<c, g>>])}
    IN  SelectColumns(data, {g \in Range(data.columns) :
                                Cardinality(detected(g)) >= min_cells})

\* ---------------------------------------------------------- MagnitudeFilter
DEFAULT_MIN_COUNT == 2

\* mutant: only the genes without any count are dropped
filter_low_magnitude_genes_detected(data, min_count) ==
    LET mask == {g \in Range(data.columns) : VLess(Zero, ColMax(data, g))}
    IN  SelectColumns(data, mask)

\* mutant: max > min_count instead of max >= min_count
filter_low_magnitude_genes_strict(data, min_count) ==
    LET mask == {g \in Range(data.columns) : VLess(Int2V(min_count), ColMax(data, g))}
    IN  SelectColumns(data, mask)

filter_low_magnitude_genes(data, min_count) ==
    LET mask == {g \in Range(data.columns) : VLeq(Int2V(min_count), ColMax(data, g))}
    IN  SelectColumns(data, mask)

\* ----------------------------------------------------------- FractionFilter
DEFAULT_PERCENTILE == 95

\* the k-th smallest (k = 0 ..) of a sequence of numbers
Kth(vals, k) ==
    CHOOSE v \in Range(vals) :
        /\ Cardinality({i \in 1..Len(vals) : VLess(vals[i], v)}) <= k
        /\ k < Cardinality({i \in 1..Len(vals) : VLeq(vals[i], v)})

\* np.percentile(vals, q), method "linear", for a non-empty sequence:
\* virtual index q/100 * (n-1), interpolated between its two neighbours
Percentile(vals, q) ==
    IF \E i \in 1..Len(vals) : ~IsNum(vals[i]) THEN NaN
    ELSE LET n == Len(vals)
             pos == q * (n - 1)
             lo == pos \div 100
             hi == IF lo + 1 <= n - 1 THEN lo + 1 ELSE lo
             a == Kth(vals, lo)
             b == Kth(vals, hi)
             diff == VAdd(b, VMul(Int2V(-1), a))
         IN  VAdd(a, VMul(diff, Num(pos % 100, 100)))

\* mutant: the zero totals are left in the denominator
ReplaceZeroByOne_missing(v) == v

\* total_counts.replace(0, 1)
ReplaceZeroByOne(v) == IF v = Zero THEN Int2V(1) ELSE v

\* mito_counts / total_counts.replace(0, 1) for one cell
Fraction(data, genes, c) ==
    VDiv(RowSum(data, c, genes), ReplaceZeroByOne(RowSum(data, c, data.columns)))

\* same: the returned object is the very object the function was given
Outcome(frame, warned, exc) ==
    [ret |-> frame, warned |-> warned, exc |-> exc, same |-> FALSE]

\* mutant: the skipping filter hands back a copy of its input
ReturnInput_copy(data) == Outcome(data, TRUE, "none")

\* warnings.warn(...); return data
ReturnInput(data) == [ret |-> data, warned |-> TRUE, exc |-> "none", same |-> TRUE]

\* mutant: keeps ratio <= cutoff instead of ratio < cutoff
FractionCut_inclusive(data, genes, percentile) ==
    IF data.index = <<>>
    THEN {Outcome(data, FALSE, "none"), Outcome(data, FALSE, "IndexError")}
    ELSE LET ratios == [i \in 1..Len(data.index) |-> Fraction(data, genes, data.index[i])]
             cutoff == Percentile(ratios, percentile)
             keep == {c \in Range(data.index) : VLeq(Fraction(data, genes, c), cutoff)}
         IN  {Outcome(SelectRows(data, keep), FALSE, "none")}

\* mutant: the argument read as a fixed fraction, keeping ratio <= argument
FractionCut_threshold(data, genes, percentile) ==
    LET keep == {c \in Range(data.index) :
                    VLeq(Fraction(data, genes, c), Int2V(percentile))}
    IN  {Outcome(SelectRows(data, keep), FALSE, "none")}

\* lines 95-115: ratio per cell, percentile cutoff, keep ratio < cutoff.
\* np.percentile of an empty array depends on the numpy release: it is nan
\* (no cell selected) or an IndexError.
FractionCut(data, genes, percentile) ==
    IF data.index = <<>>
    THEN {Outcome(data, FALSE, "none"), Outcome(data, FALSE, "IndexError")}
    ELSE LET ratios == [i \in 1..Len(data.index) |-> Fraction(data, genes, data.index[i])]
             cutoff == Percentile(ratios, percentile)
             keep == {c \in Range(data.index) : VLess(Fraction(data, genes, c), cutoff)}
         IN  {Outcome(SelectRows(data, keep), FALSE, "none")}

\* mutant: no early return when no mitochondrial gene is found
filter_high_mito_cells_noskip(data, percentile) ==
    FractionCut(data, get_gene_set(data, MT_PREFIX), percentile)

\* the set of possible outcomes [ret, warned, exc] of the call
filter_high_mito_cells(data, percentile) ==
    LET mt_genes == get_gene_set(data, MT_PREFIX)
    IN  IF Len(mt_genes) = 0
        THEN {ReturnInput(data)}
        ELSE FractionCut(data, mt_genes, percentile)

\* generic fraction filter over a curated gene list (exact, case-sensitive
\* match of the names), called by the tests and by filter_data
filter_cells_by_fraction(data, gene_list, percentile) ==
    LET found == SelectSeq(data.columns, LAMBDA g : g \in Range(gene_list))
    IN  IF Len(found) = 0
        THEN {ReturnInput(data)}
        ELSE FractionCut(data, found, percentile)

APOPTOSIS_GENES(species) == IF species = "mouse" THEN <<"Bax">> ELSE <<"BAX">>
RRNA_GENES(species) == IF species = "mouse" THEN <<"Rn18s">> ELSE <<"RNA18S5">>

filter_high_apoptosis_cells(data, species) ==
    filter_cells_by_fraction(data, APOPTOSIS_GENES(species), DEFAULT_PERCENTILE)

filter_high_rrna_cells(data, species) ==
    filter_cells_by_fraction(data, RRNA_GENES(species), DEFAULT_PERCENTILE)

\* ------------------------------------------------------------- transforms
CPM_RESCALE == 1000000

\* mutant: the nan entries are left in the result
FillNa_missing(v) == v

\* DataFrame.fillna(0)
FillNa(v) == IF IsNaN(v) THEN Zero ELSE v

\* mutant: the rows are divided by their sum but not multiplied by rescale
normalize_by_library_size_norescale(data, rescale) ==
    Frame(data.index, data.columns,
          [p \in Range(data.index) \X Range(data.columns) |->
              FillNa(VDiv(data.val[p], RowSum(data, p[1], data.columns)))])

normalize_by_library_size(data, rescale) ==
    LET library_size(c) == RowSum(data, c, data.columns)
    IN  Frame(data.index, data.columns,
              [p \in Range(data.index) \X Range(data.columns) |->
                  FillNa(VMul(VDiv(data.val[p], library_size(p[1])), Int2V(rescale)))])

RECURSIVE IsPow10(_)
IsPow10(n) == n = 1 \/ (n > 1 /\ n % 10 = 0 /\ IsPow10(n \div 10))

RECURSIVE Log10Int(_)
Log10Int(n) == IF n = 1 THEN 0 ELSE 1 + Log10Int(n \div 10)

\* np.log10 of one value: exact on the powers of ten, -inf at 0, nan below 0
Log10(x) ==
    IF x.k = "num"
    THEN IF x.n = 0 THEN NegInf
         ELSE IF x.n < 0 THEN NaN
         ELSE IF x.d = 1 /\ IsPow10(x.n) THEN Int2V(Log10Int(x.n))
         ELSE IF x.n = 1 /\ IsPow10(x.d) THEN Int2V(-Log10Int(x.d))
         ELSE [k |-> "log10", n |-> x.n, d |-> x.d]
    ELSE IF x.k = "inf" THEN PosInf
    ELSE NaN

\* mutant: the pseudocount is not added
log_transform_nopseudocount(data, pseudocount) ==
    Frame(data.index, data.columns,
          [p \in Range(data.index) \X Range(data.columns) |-> Log10(data.val[p])])

log_transform(data, pseudocount) ==
    Frame(data.index, data.columns,
          [p \in Range(data.index) \X Range(data.columns) |->
              Log10(VAdd(data.val[p], Int2V(pseudocount)))])

\* PearsonResidualNormalizer (scanpy): residuals of the genes ranked highest
\* by residual variance; with n_hvg >= number of genes every gene is selected
DEFAULT_N_HVG == 3000

Residual(v) == [k |-> "resid", n |-> v.n, d |-> v.d]

\* scanpy's defaults: theta=100, clip=sqrt(number of cells)
PEARSON_THETA == 100
\* the residuals that rank the genes are computed in hundredths
RESIDUAL_SCALE == 100

\* the sum of the counts at a set of (cell, gene) positions
RECURSIVE SumCounts(_, _)
SumCounts(data, positions) ==
    IF positions = {} THEN 0
    ELSE LET p == CHOOSE x \in positions : TRUE
         IN  data.val[p].n + SumCounts(data, positions \ {p})

CellSum(data, c) == SumCounts(data, {c} \X Range(data.columns))
GeneSum(data, g) == SumCounts(data, Range(data.index) \X {g})
TotalSum(data) == SumCounts(data, Range(data.index) \X Range(data.columns))

\* floor(sqrt(v)) by bisection between lo and hi, lo * lo <= v
RECURSIVE ISqrtBetween(_, _, _)
ISqrtBetween(v, lo, hi) ==
    IF lo >= hi THEN lo
    ELSE LET mid == (lo + hi + 1) \div 2
         IN  IF mid * mid <= v THEN ISqrtBetween(v, mid, hi)
             ELSE ISqrtBetween(v, lo, mid - 1)

\* floor(sqrt(v)), at most cap
ISqrt(v, cap) == ISqrtBetween(v, 0, cap)

\* (x - mu) / sqrt(mu + mu^2 / theta) with mu = a / b, a = cell sum * gene
\* sum and b = total, clipped to +-sqrt(number of cells); defined for mu > 0
ResidualFrom(n, x, a, b) ==
    LET diff == x * b - a
        num == PEARSON_THETA * diff * diff
        den == a * (PEARSON_THETA * b + a)
        clip == ISqrt(n * RESIDUAL_SCALE * RESIDUAL_SCALE, n * RESIDUAL_SCALE)
        scaled == (num * RESIDUAL_SCALE) \div den
        rest == (num * RESIDUAL_SCALE) % den
        magnitude == IF num >= n * den THEN clip
                     ELSE ISqrt(scaled * RESIDUAL_SCALE
                                  + (rest * RESIDUAL_SCALE) \div den, clip)
    IN  IF diff < 0 THEN 0 - magnitude ELSE magnitude

ResidualOf(data, c, g) ==
    ResidualFrom(Len(data.index), data.val[<<c, g>>].n,
                 CellSum(data, c) * GeneSum(data, g), TotalSum(data))

\* the sum and the sum of squares of the residuals of gene g in the first k
\* cells
RECURSIVE ResidualMoments(_, _, _)
ResidualMoments(data, g, k) ==
    IF k = 0 THEN <<0, 0>>
    ELSE LET m == ResidualMoments(data, g, k - 1)
             r == ResidualOf(data, data.index[k], g)
         IN  <<m[1] + r, m[2] + r * r>>

\* np.var(residuals, axis=0) of one gene, times (number of cells)^2: 0 for a
\* gene without counts (left out of the computation), nan when a cell
\* without counts makes mu = 0
ResidualVariance(data, g) ==
    IF GeneSum(data, g) = 0 THEN Zero
    ELSE IF \E c \in Range(data.index) : CellSum(data, c) = 0 THEN NaN
    ELSE LET n == Len(data.index)
             m == ResidualMoments(data, g, n)
         IN  Int2V(n * m[2] - m[1] * m[1])

\* argsort of the negated variances: larger first, nan last
Outranks(a, b) == IsNum(a) /\ (IsNaN(b) \/ VLess(b, a))

\* mutant: the first n_top_genes columns are flagged, whatever their rank
highly_variable_genes_leading(data, n_top_genes) ==
    {{data.columns[i] : i \in {j \in 1..Len(data.columns) : j <= n_top_genes}}}

\* the residual variances of the first k columns, in the order of the columns
RECURSIVE ResidualVariances(_, _)
ResidualVariances(data, k) ==
    IF k = 0 THEN <<>>
    ELSE Append(ResidualVariances(data, k - 1), ResidualVariance(data, data.columns[k]))

\* sc.experimental.pp.highly_variable_genes(adata, flavor="pearson_residuals",
\* n_top_genes=...): the possible sets of flagged genes (genes of equal
\* variance are ranked in an order the sort leaves open)
highly_variable_genes(data, n_top_genes) ==
    LET genes == Range(data.columns)
        positions == 1..Len(data.columns)
        variance == ResidualVariances(data, Len(data.columns))
    IN  IF n_top_genes >= Len(data.columns) THEN {genes}
        ELSE {{data.columns[i] : i \in m} :
                 m \in {x \in SUBSET positions :
                           /\ Cardinality(x) = n_top_genes
                           /\ \A i \in x, j \in positions \ x :
                                 ~Outranks(variance[j], variance[i])}}

\* the possible results: the residuals of the flagged genes, columns in the
\* order of the input
normalize_data_with_pearson(filtered_data, n_hvg) ==
    LET residuals ==
            Frame(filtered_data.index, filtered_data.columns,
                  [p \in Range(filtered_data.index) \X Range(filtered_data.columns) |->
                      Residual(filtered_data.val[p])])
    IN  {SelectColumns(residuals, m) : m \in highly_variable_genes(filtered_data, n_hvg)}

\* ------------------------------------------------------ DimensionalityReducer
\* f"PC{i+1}"
PCName(i) == CASE i = 1 -> "PC1" [] i = 2 -> "PC2" [] i = 3 -> "PC3" [] i = 4 -> "PC4"
               [] i = 5 -> "PC5" [] OTHER -> "PC6"

Component(i) == [k |-> "pc", n |-> i, d |-> 1]

\* mutant: the frame is built without index=data.index, so its rows carry
\* the default labels instead of the cell identifiers
apply_pca_unlabelled(data, n_components) ==
    IF \/ data.index = <<>>
       \/ data.columns = <<>>
       \/ n_components > Len(data.index)
       \/ n_components > Len(data.columns)
       \/ \E p \in DOMAIN data.val : data.val[p].k \in {"nan", "inf", "neginf"}
    THEN Outcome(data, FALSE, "ValueError")
    ELSE LET pc_columns == [i \in 1..n_components |-> PCName(i)]
             labels == [i \in 1..Len(data.index) |-> i]
         IN  Outcome(Frame(labels, pc_columns,
                           [p \in Range(labels) \X Range(pc_columns) |->
                               Component(CHOOSE i \in 1..n_components : PCName(i) = p[2])]),
                     FALSE, "none")

\* mutant: n_components is capped at min(cells, genes) instead of being rejected
apply_pca_capped(data, n_components) ==
    LET dims == {Len(data.index), Len(data.columns)}
        n == CHOOSE m \in dims \cup {n_components} : \A x \in dims \cup {n_components} : m <= x
        pc_columns == [i \in 1..n |-> PCName(i)]
    IN  Outcome(Frame(data.index, pc_columns,
                      [p \in Range(data.index) \X Range(pc_columns) |->
                          Component(CHOOSE i \in 1..n : PCName(i) = p[2])]),
                FALSE, "none")


\* sklearn PCA.fit_transform rejects an empty frame, non-finite values and
\* n_components > min(n_samples, n_features) with a ValueError
apply_pca(data, n_components) ==
    IF \/ data.index = <<>>
       \/ data.columns = <<>>
       \/ n_components > Len(data.index)
       \/ n_components > Len(data.columns)
       \/ \E p \in DOMAIN data.val : data.val[p].k \in {"nan", "inf", "neginf"}
    THEN Outcome(data, FALSE, "ValueError")
    ELSE LET pc_columns == [i \in 1..n_components |-> PCName(i)]
         IN  Outcome(Frame(data.index, pc_columns,
                           [p \in Range(data.index) \X Range(pc_columns) |->
                               Component(CHOOSE i \in 1..n_components : PCName(i) = p[2])]),
                     FALSE, "none")

\* ------------------------------------------------------------------ inputs
ColumnLists == {<<"MT-CO1", "ACTB">>, <<"mt-Co1", "ACTB">>, <<"BAX", "ACTB">>}

CellIndex(n) == [i \in 1..n |-> i]
Counts == {Int2V(v) : v \in 0..MaxCount}

\* raw is a count matrix of at most MaxCells cells over one of the column lists
IsBoundedFrame(frame) ==
    \E n \in 1..MaxCells, cols \in ColumnLists :
        \E f \in [(1..n) \X Range(cols) -> Counts] :
            frame = Frame(CellIndex(n), cols, f)

\* the fixture of test_fraction_filtering_math: ratios 1.0, 0.5, 0.0
fraction_data ==
    Frame(CellIndex(3), <<"Target_1", "Other_1">>,
          [p \in (1..3) \X {"Target_1", "Other_1"} |->
              IF p[2] = "Target_1"
              THEN Int2V(CASE p[1] = 1 -> 100 [] p[1] = 2 -> 50 [] OTHER -> 0)
              ELSE Int2V(CASE p[1] = 1 -> 0 [] p[1] = 2 -> 50 [] OTHER -> 100)])

\* the columns High_Expr, Binary and Zero of the fixture of
\* test_filter_low_magnitude_genes: one gene with real signal, one 0/1 gene
\* and one gene without counts
magnitude_data ==
    Frame(CellIndex(3), <<"High_Expr", "Binary", "Zero">>,
          [p \in (1..3) \X {"High_Expr", "Binary", "Zero"} |->
              CASE p[2] = "High_Expr" ->
                       Int2V(CASE p[1] = 1 -> 10 [] p[1] = 2 -> 20 [] OTHER -> 0)
                [] p[2] = "Binary" -> Int2V(IF p[1] = 2 THEN 1 ELSE 0)
                [] OTHER -> Zero])

Fixtures == {fraction_data, magnitude_data}

MinCounts == 0..(MaxCount + 1)
Percentiles == {0, 1, 50, 67, 95, 100}
\* the (gene_list, percentile) arguments of the generic fraction filter
FractionCalls ==
    {<<g, 67>> : g \in {<<"Target_1">>, <<"Target_1", "Ghost_Gene">>}}
        \cup {<<<<"ACTB">>, p>> : p \in {50, 100}}
Rescales == {CPM_RESCALE, 10000, 7}
Pseudocounts == {0, 1, 10}
NormMethods == {"log_cpm", "pearson", "cpm"}
SpeciesSet == {"human", "mouse"}
Components == {1, 2}
PcaComponents == {1, 2, 3}

\* ------------------------------------------------- clustering collaborator
\* STRATEGY_REGISTRY as the sequence of its (name, function) items
STRATEGY_REGISTRY ==
    <<<<"kmeans", "kmeans_strategy">>, <<"spectral", "spectral_strategy">>>>

\* random_state=42 of KMeans in kmeans_strategy
KMEANS_RANDOM_STATE == 42

\* the seeds a solver built without random_state may draw
Entropy == {0, 1}

\* pd.Series(model.fit_predict(data), index=data.index): the labels are a
\* function of the data, of n_clusters and of the random state of the solver
Labels(data, n_clusters, seed) ==
    [index |-> data.index,
     val |-> [i \in 1..Len(data.index) |-> (i + seed) % n_clusters]]

StrategyOutcome(labels, exc) == [labels |-> labels, exc |-> exc]

\* scikit-learn rejects n_clusters < 1 and n_clusters > n_samples
ClusterableInto(data, n_clusters) ==
    n_clusters >= 1 /\ n_clusters <= Len(data.index)

\* KMeans(n_clusters=n_clusters, random_state=42)
kmeans_strategy(data, n_clusters) ==
    IF ~ClusterableInto(data, n_clusters) THEN {StrategyOutcome(<<>>, "ValueError")}
    ELSE {StrategyOutcome(Labels(data, n_clusters, KMEANS_RANDOM_STATE), "none")}

\* mutant: SpectralClustering built with a fixed random_state
spectral_strategy_seeded(data, n_clusters) ==
    IF ~ClusterableInto(data, n_clusters) THEN {StrategyOutcome(<<>>, "ValueError")}
    ELSE {StrategyOutcome(Labels(data, n_clusters, KMEANS_RANDOM_STATE), "none")}

\* SpectralClustering(n_clusters=n_clusters, affinity='nearest_neighbors'):
\* no random_state, so the eigen solver and the k-means label assignment
\* draw from the global generator
spectral_strategy(data, n_clusters) ==
    IF ~ClusterableInto(data, n_clusters) THEN {StrategyOutcome(<<>>, "ValueError")}
    ELSE {StrategyOutcome(Labels(data, n_clusters, seed), "none") : seed \in Entropy}

\* cluster_func(target_data, n_clusters=...) for a function of the registry
CallStrategy(cluster_func, target_data, n_clusters) ==
    IF cluster_func = "kmeans_strategy" THEN kmeans_strategy(target_data, n_clusters)
    ELSE spectral_strategy(target_data, n_clusters)

\* target_data["cluster"] = labels
WithClusterColumn(target_data, labels) ==
    Frame(target_data.index, Append(target_data.columns, "cluster"),
          [p \in Range(target_data.index) \X (Range(target_data.columns) \cup {"cluster"}) |->
              IF p[2] = "cluster"
              THEN Int2V(labels.val[CHOOSE i \in 1..Len(labels.index) : labels.index[i] = p[1]])
              ELSE target_data.val[p]])


\* list(d.keys()) and d[name] of a dict given by its items
Keys(items) == [i \in 1..Len(items) |-> items[i][1]]
Lookup(items, name) ==
    items[CHOOSE i \in 1..Len(items) : items[i][1] = name][2]

\* mutant: an unregistered name falls back to the first registered strategy
get_clustering_strategy_fallback(items, name) ==
    [exc |-> "none", message |-> <<>>,
     ret |-> <<IF name \in Range(Keys(items)) THEN Lookup(items, name) ELSE items[1][2]>>]

\* get_clustering_strategy(name) on the registry items: the function, or a
\* ValueError with the message
\* f"Algorithm '{name}' not found. Available: {list(STRATEGY_REGISTRY.keys())}"
get_clustering_strategy(items, name) ==
    IF name \notin Range(Keys(items))
    THEN [exc |-> "ValueError",
          message |-> <<"Algorithm '", name, "' not found. Available: ", Keys(items)>>,
          ret |-> <<>>]
    ELSE [exc |-> "none", message |-> <<>>, ret |-> <<Lookup(items, name)>>]

AlgoNames == {"kmeans", "spectral", "dbscan", "KMeans"}


\* Python values read from config.yaml: None, an int, a str
PyNone == [t |-> "none"]
PyInt(i) == [t |-> "int", i |-> i]
PyStr(s) == [t |-> "str", s |-> s]
PyDict(d) == [t |-> "dict", d |-> d]

\* truth value of `x` in `x if x else default`
Truthy(x) ==
    \/ x.t = "int" /\ x.i # 0
    \/ x.t = "str" /\ x.s # ""

\* config.get(key) on a dict
DictGet(config, key) == IF key \in DOMAIN config.d THEN config.d[key] ELSE PyNone

\* a config.yaml: absent, an empty document, or a mapping of some fields
NoConfigFile == [exists |-> FALSE, doc |-> "none", fields |-> <<>>]
EmptyConfigFile == [exists |-> TRUE, doc |-> "empty", fields |-> <<>>]
MappingConfigFile(fields) == [exists |-> TRUE, doc |-> "mapping", fields |-> fields]

\* yaml.safe_load: None for a document without content, else the mapping
yaml_safe_load(file) == IF file.doc = "empty" THEN PyNone ELSE PyDict(file.fields)

\* mutant: a document without content is read as the empty dict
load_dataset_config_nonnull(file) ==
    IF ~file.exists \/ file.doc = "empty" THEN PyDict(<<>>) ELSE yaml_safe_load(file)

\* load_dataset_config(dataset_dir): {} without config.yaml, else its content
load_dataset_config(file) ==
    IF ~file.exists THEN PyDict(<<>>) ELSE yaml_safe_load(file)

DEFAULT_N_CLUSTERS == 5

\* species if species else "human"
SpeciesOrDefault(species) == IF Truthy(species) THEN species.s ELSE "human"

\* n_clusters if n_clusters else 5
NClustersOrDefault(n_clusters) ==
    IF Truthy(n_clusters) THEN n_clusters.i ELSE DEFAULT_N_CLUSTERS

\* os.path.join(project_root, "data", accession, "raw", f"{accession}.csv.gz")
RawFilePath(accession) ==
    <<"project_root", "data", accession, "raw", <<accession, ".csv.gz">>>>

\* f"{norm_method}_pca_preprocessed.csv.gz" and f"{norm_method}_pca_{algo_name}.csv.gz"
PreprocessedFilename(norm_method) == <<norm_method, "_pca_preprocessed.csv.gz">>
ClusteredFilename(norm_method, algo_name) == <<norm_method, "_pca_", algo_name, ".csv.gz">>

Artifact(accession, name, content) ==
    [accession |-> accession, name |-> name, content |-> content]

\* DataFrame.to_csv(save_path): the file is created or overwritten
ToCsv(artifacts, accession, name, content) ==
    {a \in artifacts : ~(a.accession = accession /\ a.name = name)}
        \cup {Artifact(accession, name, content)}

HasArtifact(artifacts, accession, name) ==
    \E a \in artifacts : a.accession = accession /\ a.name = name

ReadArtifact(artifacts, accession, name) ==
    (CHOOSE a \in artifacts : a.accession = accession /\ a.name = name).content


\* ------------------------------------------------------------ orchestration
\* the data directory before anything is stored
NoFiles == [raw |-> {}, config |-> NoConfigFile, results_dir |-> {}, artifacts |-> {}]

\* the frame of a script function: arguments, position, local variables
RunFrame(op, accession, algo_name, norm_method, n_components) ==
    [op |-> op, accession |-> accession, algo_name |-> algo_name,
     norm_method |-> norm_method, n_components |-> n_components,
     pos |-> "entered", config |-> PyNone, species |-> "", target_data |-> <<>>,
     n_clusters |-> 0, labels |-> <<>>, steps |-> <<>>]

NoRun == [RunFrame("none", "", "", "", 0) EXCEPT !.pos = "none"]

\* ------------------------------------------------------------- src/utils.py
DEFAULT_HVG_COUNT == 2000

PyFloat(v) == [t |-> "float", v |-> v]

\* data.var(axis=0) of one gene: the sample variance (ddof=1), nan for fewer
\* than two cells
GeneVariance(data, g) ==
    LET n == Len(data.index)
        x == [i \in 1..n |-> data.val[<<data.index[i], g>>]]
        s1 == SumSeq(x)
        s2 == SumSeq([i \in 1..n |-> VMul(x[i], x[i])])
    IN  VDiv(VAdd(VMul(Int2V(n), s2), VMul(Int2V(-1), VMul(s1, s1))),
             Int2V(n * (n - 1)))

\* the orders of the genes that sort_values(ascending) can produce: nan last,
\* genes of equal variance in an order the sort leaves open
SortedGenes(data, ascending) ==
    LET n == Len(data.columns)
        before(a, b) == IF ascending THEN Outranks(b, a) /\ IsNum(b) ELSE Outranks(a, b)
    IN  {s \in [1..n -> Range(data.columns)] :
            /\ \A i, j \in 1..n : i # j => s[i] # s[j]
            /\ \A i, j \in 1..n :
                  i < j => ~before(GeneVariance(data, s[j]), GeneVariance(data, s[i]))
            /\ \A i, j \in 1..n :
                  (i < j /\ IsNaN(GeneVariance(data, s[i])))
                      => IsNaN(GeneVariance(data, s[j]))}

\* int(len(gene_variances) * percentile) / n_top_genes / DEFAULT_HVG_COUNT
NumToKeep(n_genes, n_top_genes, percentile) ==
    IF percentile.t # "none"
    THEN LET p == VMul(Int2V(n_genes), percentile.v)
         IN  IF p.n >= 0 THEN p.n \div p.d ELSE 0 - ((0 - p.n) \div p.d)
    ELSE IF n_top_genes.t # "none" THEN n_top_genes.i
    ELSE DEFAULT_HVG_COUNT

\* Series.head(n): the first n entries, all but the last -n for a negative n
SeriesHead(s, n) ==
    LET m == IF n >= 0 THEN n ELSE Len(s) + n
    IN  SubSeq(s, 1, IF m < 0 THEN 0 ELSE IF m > Len(s) THEN Len(s) ELSE m)

\* data[top_genes]: the named columns in the order of the names
ColumnsInOrder(data, genes) ==
    Frame(data.index, genes, [p \in Range(data.index) \X Range(genes) |-> data.val[p]])

\* mutant: the variances are sorted in ascending order
select_hvg_by_variance_ascending(data, n_top_genes, percentile) ==
    {ColumnsInOrder(data, SeriesHead(gene_variances,
                        NumToKeep(Len(gene_variances), n_top_genes, percentile))) :
        gene_variances \in SortedGenes(data, TRUE)}

\* the possible results of select_hvg_by_variance(data, n_top_genes, percentile)
select_hvg_by_variance(data, n_top_genes, percentile) ==
    {ColumnsInOrder(data, SeriesHead(gene_variances,
                        NumToKeep(Len(gene_variances), n_top_genes, percentile))) :
        gene_variances \in SortedGenes(data, FALSE)}

\* the fixture hvg_data of test_utils.py
hvg_data ==
    LET cols == <<"Gene_High_Var", "Gene_Mid_Var", "Gene_Low_Var", "Gene_Const">>
    IN  Frame(CellIndex(3), cols,
              [p \in (1..3) \X Range(cols) |->
                  CASE p[2] = "Gene_High_Var" -> Int2V(50 * (p[1] - 1))
                    [] p[2] = "Gene_Mid_Var" -> Int2V(5 * (p[1] - 1))
                    [] p[2] = "Gene_Low_Var" -> Num(9 + p[1], 10)
                    [] OTHER -> Int2V(10)])

\* the fixture df_const of test_select_hvg_handles_all_zero_variance
df_const ==
    Frame(CellIndex(3), <<"G1", "G2">>,
          [p \in (1..3) \X {"G1", "G2"} |-> IF p[2] = "G1" THEN Int2V(1) ELSE Int2V(5)])

\* the (n_top_genes, percentile) arguments
HvgCalls ==
    {<<PyNone, PyNone>>, <<PyInt(-1), PyNone>>, <<PyInt(0), PyNone>>,
     <<PyInt(1), PyNone>>, <<PyInt(2), PyNone>>, <<PyInt(5), PyNone>>,
     <<PyNone, PyFloat(Zero)>>, <<PyNone, PyFloat(Num(1, 4))>>,
     <<PyNone, PyFloat(Num(1, 2))>>, <<PyNone, PyFloat(Num(3, 2))>>,
     <<PyInt(1), PyFloat(Num(1, 2))>>}

\* -------------------------------------------------------------------- state
VARIABLES
    raw,       \* the caller's input matrix
    call,      \* the call in progress or finished: operation and arguments
    pc,        \* "idle", a stage of preprocess_data, "returned" or "raised"
    data,      \* the local variable holding the matrix between stages
    ret,       \* <<frame>> once the call has returned a matrix, else <<>>
    exc,       \* the exception that ended the call, or "none"
    warnings,  \* number of warnings emitted
    stages,    \* the stages executed so far, in order
    registry,  \* STRATEGY_REGISTRY: the (name, function) items in insertion order
    message,   \* the message of the exception raised by a lookup or a run
    fs,        \* the data directory: raw files, config.yaml, results
    run,       \* the frame of run_preprocessing / run_experiment
    observed,  \* results of the repeated calls of the randomized functions
    aliased    \* the stage that ran last returned the object it was given

\* what the orchestration scripts and the clustering collaborator add to the
\* state of the preprocessing functions
orch == <<registry, message, fs, run, observed>>

vars == <<raw, call, pc, data, ret, exc, warnings, stages, orch, aliased>>

\* op(arg) for a stage function, with gene_list for the generic fraction
\* filter and norm_method, species, n_components for preprocess_data
Call(op, arg) ==
    [op |-> op, arg |-> arg, gene_list |-> <<>>, norm_method |-> "",
     species |-> "", n_components |-> 0]

NoCall == Call("none", 0)

\* nothing called yet on the matrix raw
Idle ==
    /\ call = NoCall
    /\ pc = "idle"
    /\ data = raw
    /\ ret = <<>>
    /\ exc = "none"
    /\ warnings = 0
    /\ stages = <<>>
    /\ registry = STRATEGY_REGISTRY
    /\ message = <<>>
    /\ run = NoRun
    /\ observed = {}
    /\ aliased = FALSE

Init ==
    /\ (IsBoundedFrame(raw) \/ raw \in Fixtures)
    /\ fs = NoFiles
    /\ Idle

\* a direct call of one stage function on raw ends with outcome o
Finish(c, o) ==
    /\ pc = "idle"
    /\ call' = c
    /\ exc' = o.exc
    /\ warnings' = warnings + (IF o.warned THEN 1 ELSE 0)
    /\ ret' = IF o.exc = "none" THEN <<o.ret>> ELSE <<>>
    /\ pc' = IF o.exc = "none" THEN "returned" ELSE "raised"
    /\ stages' = <<c.op>>
    /\ aliased' = o.same
    /\ UNCHANGED <<raw, data, orch>>

CallFilterLowMagnitude(min_count) ==
    Finish(Call("filter_low_magnitude_genes", min_count),
           Outcome(filter_low_magnitude_genes(raw, min_count), FALSE, "none"))

CallFilterHighMito(percentile) ==
    /\ pc = "idle"
    /\ \E o \in filter_high_mito_cells(raw, percentile) :
          Finish(Call("filter_high_mito_cells", percentile), o)

CallFilterCellsByFraction(gene_list, percentile) ==
    /\ pc = "idle"
    /\ \E o \in filter_cells_by_fraction(raw, gene_list, percentile) :
          Finish([Call("filter_cells_by_fraction", percentile)
                     EXCEPT !.gene_list = gene_list], o)

CallNormalize(rescale) ==
    Finish(Call("normalize_by_library_size", rescale),
           Outcome(normalize_by_library_size(raw, rescale), FALSE, "none"))

CallLogTransform(pseudocount) ==
    Finish(Call("log_transform", pseudocount),
           Outcome(log_transform(raw, pseudocount), FALSE, "none"))

\* normalize_data_with_pearson(filtered_data) called on its own
CallNormalizePearson(n_hvg) ==
    /\ pc = "idle"
    /\ \E pearson_df \in normalize_data_with_pearson(raw, n_hvg) :
          Finish(Call("normalize_data_with_pearson", n_hvg),
                 Outcome(pearson_df, FALSE, "none"))

\* apply_pca(data, n_components) called on its own
CallApplyPca(n_components) ==
    Finish(Call("apply_pca", n_components), apply_pca(raw, n_components))


\* ------------------------------------------------------- preprocess_data
\* mutant: the method is checked on entry, before the filters
PreprocessData_validated(norm_method, species, n_pca_components) ==
    /\ pc = "idle"
    /\ call' = [Call("preprocess_data", 0) EXCEPT
                   !.norm_method = norm_method, !.species = species,
                   !.n_components = n_pca_components]
    /\ pc' = IF norm_method \in {"log_cpm", "pearson"}
             THEN "filter_low_magnitude" ELSE "raised"
    /\ exc' = IF norm_method \in {"log_cpm", "pearson"} THEN exc ELSE "ValueError"
    /\ data' = raw
    /\ UNCHANGED <<raw, ret, warnings, stages, orch, aliased>>

\* preprocess_data(raw_data, norm_method, species, n_pca_components) is entered
PreprocessData(norm_method, species, n_pca_components) ==
    /\ pc = "idle"
    /\ call' = [Call("preprocess_data", 0) EXCEPT
                   !.norm_method = norm_method, !.species = species,
                   !.n_components = n_pca_components]
    /\ pc' = "filter_low_magnitude"
    /\ data' = raw
    /\ UNCHANGED <<raw, ret, exc, warnings, stages, orch, aliased>>

\* one stage of the run ends with outcome o and hands over to stage next
Stage(name, o, next) ==
    /\ stages' = Append(stages, name)
    /\ warnings' = warnings + (IF o.warned THEN 1 ELSE 0)
    /\ exc' = o.exc
    /\ IF o.exc = "none"
       THEN data' = o.ret /\ pc' = next
       ELSE data' = data /\ pc' = "raised"
    /\ aliased' = (o.exc = "none" /\ o.same)
    /\ UNCHANGED <<raw, call, ret, orch>>

FilterLowMagnitude ==
    /\ pc = "filter_low_magnitude"
    /\ Stage("filter_low_magnitude_genes",
             Outcome(filter_low_magnitude_genes(data, DEFAULT_MIN_COUNT), FALSE, "none"),
             "filter_apoptosis")

FilterApoptosis ==
    /\ pc = "filter_apoptosis"
    /\ \E o \in filter_high_apoptosis_cells(data, call.species) :
          Stage("filter_high_apoptosis_cells", o, "filter_rrna")

\* mutant: the run goes from the rRNA filter straight to normalization
FilterRrna_skipsMito ==
    /\ pc = "filter_rrna"
    /\ \E o \in filter_high_rrna_cells(data, call.species) :
          Stage("filter_high_rrna_cells", o, "normalize")

FilterRrna ==
    /\ pc = "filter_rrna"
    /\ \E o \in filter_high_rrna_cells(data, call.species) :
          Stage("filter_high_rrna_cells", o, "filter_mito")

FilterMito ==
    /\ pc = "filter_mito"
    /\ \E o \in filter_high_mito_cells(data, DEFAULT_PERCENTILE) :
          Stage("filter_high_mito_cells", o, "normalize")

\* mutant: every name other than "log_cpm" falls back to the Pearson branch
Branch_fallback(norm_method) ==
    IF norm_method = "log_cpm" THEN "log_cpm" ELSE "pearson"

\* the if / elif / else over norm_method
Branch(norm_method) ==
    IF norm_method = "log_cpm" THEN "log_cpm"
    ELSE IF norm_method = "pearson" THEN "pearson"
    ELSE "error"

NormalizeLibrarySize ==
    /\ pc = "normalize"
    /\ call.op = "preprocess_data"
    /\ Branch(call.norm_method) = "log_cpm"
    /\ Stage("normalize_by_library_size",
             Outcome(normalize_by_library_size(data, CPM_RESCALE), FALSE, "none"),
             "log_transform")

LogTransform ==
    /\ pc = "log_transform"
    /\ Stage("log_transform", Outcome(log_transform(data, 1), FALSE, "none"),
             "apply_pca")

\* mutant: the Pearson normalizer runs whatever the method is
NormalizePearson_anyMethod ==
    /\ pc = "normalize"
    /\ call.op = "preprocess_data"
    /\ \E pearson_df \in normalize_data_with_pearson(data, DEFAULT_N_HVG) :
          Stage("normalize_data_with_pearson", Outcome(pearson_df, FALSE, "none"),
                "apply_pca")

NormalizePearson ==
    /\ pc = "normalize"
    /\ call.op = "preprocess_data"
    /\ Branch(call.norm_method) = "pearson"
    /\ \E pearson_df \in normalize_data_with_pearson(data, DEFAULT_N_HVG) :
          Stage("normalize_data_with_pearson", Outcome(pearson_df, FALSE, "none"),
                "apply_pca")

\* else: raise ValueError(f"Unknown normalization method: {norm_method}")
RaiseUnknownMethod ==
    /\ pc = "normalize"
    /\ call.op = "preprocess_data"
    /\ Branch(call.norm_method) = "error"
    /\ pc' = "raised"
    /\ exc' = "ValueError"
    /\ UNCHANGED <<raw, call, data, ret, warnings, stages, orch, aliased>>

\* return apply_pca(normalized_data, n_components=n_pca_components)
ApplyPca ==
    /\ pc = "apply_pca"
    /\ LET o == apply_pca(data, call.n_components)
       IN  /\ stages' = Append(stages, "apply_pca")
           /\ exc' = o.exc
           /\ ret' = IF o.exc = "none" THEN <<o.ret>> ELSE <<>>
           /\ pc' = IF o.exc = "none" THEN "returned" ELSE "raised"
           /\ aliased' = FALSE
           /\ UNCHANGED <<raw, call, data, warnings, orch>>

\* normalize_data_with_log_cpm(filtered_data) with the default arguments
normalize_data_with_log_cpm(filtered_data) ==
    log_transform(normalize_by_library_size(filtered_data, CPM_RESCALE), 1)

\* ---------------------------------- preprocessing/pipeline.py (older variant)
\* preprocess_data(raw_data) of pipeline.py: no method selector, no species
\* argument (the filters use their default species) and no PCA
PipelinePreprocessData ==
    /\ pc = "idle"
    /\ call' = [Call("pipeline.preprocess_data", 0) EXCEPT !.species = "human"]
    /\ pc' = "filter_low_magnitude"
    /\ data' = raw
    /\ UNCHANGED <<raw, ret, exc, warnings, stages, orch, aliased>>

\* BRANCH A: log_cpm_data = normalize_data_with_log_cpm(clean_data)
PipelineBranchLogCpm ==
    /\ pc = "normalize"
    /\ call.op = "pipeline.preprocess_data"
    /\ stages' = stages \o <<"normalize_by_library_size", "log_transform">>
    /\ ret' = <<normalize_data_with_log_cpm(data)>>
    /\ pc' = "branch_pearson"
    /\ aliased' = FALSE
    /\ UNCHANGED <<raw, call, data, exc, warnings, orch>>

\* BRANCH B: pearson_data = normalize_data_with_pearson(clean_data), then
\* return {"log_cpm": log_cpm_data, "pearson": pearson_data}
PipelineBranchPearson ==
    /\ pc = "branch_pearson"
    /\ stages' = Append(stages, "normalize_data_with_pearson")
    /\ \E pearson_df \in normalize_data_with_pearson(data, DEFAULT_N_HVG) :
          ret' = Append(ret, pearson_df)
    /\ pc' = "returned"
    /\ aliased' = FALSE
    /\ UNCHANGED <<raw, call, data, exc, warnings, orch>>

\* --------------------------------------------- src/preprocessing.py (legacy)
\* preprocess_sc_data(raw_data, min_cells, mito_percentile=95) is entered
PreprocessScData(min_cells) ==
    /\ pc = "idle"
    /\ call' = Call("preprocess_sc_data", min_cells)
    /\ pc' = "filter_rare_genes"
    /\ data' = raw
    /\ UNCHANGED <<raw, ret, exc, warnings, stages, orch, aliased>>

LegacyFilterRareGenes ==
    /\ pc = "filter_rare_genes"
    /\ Stage("filter_rare_genes",
             Outcome(filter_rare_genes(data, call.arg), FALSE, "none"),
             "filter_mito")

LegacyNormalizeLibrarySize ==
    /\ pc = "normalize"
    /\ call.op = "preprocess_sc_data"
    /\ Stage("normalize_by_library_size",
             Outcome(normalize_by_library_size(data, CPM_RESCALE), FALSE, "none"),
             "legacy_log_transform")

\* data = log_transform(data); return data
LegacyLogTransform ==
    /\ pc = "legacy_log_transform"
    /\ stages' = Append(stages, "log_transform")
    /\ ret' = <<log_transform(data, 1)>>
    /\ pc' = "returned"
    /\ aliased' = FALSE
    /\ UNCHANGED <<raw, call, data, exc, warnings, orch>>


\* the stage functions called one at a time, as the unit tests call them
Next ==
    \/ \E m \in MinCounts : CallFilterLowMagnitude(m)
    \/ \E p \in Percentiles : CallFilterHighMito(p)
    \/ \E a \in FractionCalls : CallFilterCellsByFraction(a[1], a[2])
    \/ \E r \in Rescales : CallNormalize(r)
    \/ \E c \in Pseudocounts : CallLogTransform(c)
    \/ \E n \in PcaComponents : CallApplyPca(n)
    \/ CallNormalizePearson(DEFAULT_N_HVG)

Spec == Init /\ [][Next]_vars

\* runs of preprocess_data (the exported one and the older variant of
\* pipeline.py) and of the legacy preprocess_sc_data, one stage per step
NextPipeline ==
    \/ \E n \in NormMethods, s \in SpeciesSet, k \in Components :
          PreprocessData(n, s, k)
    \/ FilterLowMagnitude
    \/ FilterApoptosis
    \/ FilterRrna
    \/ FilterMito
    \/ NormalizeLibrarySize
    \/ LogTransform
    \/ NormalizePearson
    \/ RaiseUnknownMethod
    \/ ApplyPca
    \/ PipelinePreprocessData
    \/ PipelineBranchLogCpm
    \/ PipelineBranchPearson
    \/ \E m \in {1, 2} : PreprocessScData(m)
    \/ LegacyFilterRareGenes
    \/ LegacyNormalizeLibrarySize
    \/ LegacyLogTransform

SpecPipeline == Init /\ [][NextPipeline]_vars

\* ------------------------------------------------- scripts and collaborators
\* get_clustering_strategy(name) called on its own
GetClusteringStrategy(name) ==
    /\ pc = "idle"
    /\ run.op = "none"
    /\ LET o == get_clustering_strategy(registry, name)
       IN  /\ call' = Call("get_clustering_strategy", name)
           /\ exc' = o.exc
           /\ message' = o.message
           /\ ret' = o.ret
           /\ pc' = IF o.exc = "none" THEN "returned" ELSE "raised"
    /\ UNCHANGED <<raw, data, warnings, stages, registry, fs, run, observed, aliased>>


\* the script function at frame fails with an exception
RunRaises(frame, exception, text) ==
    /\ run' = [frame EXCEPT !.pos = "failed"]
    /\ exc' = exception
    /\ message' = text
    /\ pc' = "raised"

RunStep(frame, position, step) ==
    [frame EXCEPT !.pos = position, !.steps = Append(@, step)]

\* mutant: the raw file is not checked before the configuration is loaded
RunPreprocessing_unchecked(accession, norm_method, n_pca_components) ==
    /\ pc = "idle"
    /\ run.op = "none"
    /\ run' = [RunFrame("run_preprocessing", accession, "", norm_method,
                        n_pca_components) EXCEPT !.pos = "load_config"]
    /\ UNCHANGED <<raw, call, pc, data, ret, exc, warnings, stages, registry,
                   message, fs, observed, aliased>>

\* run_preprocessing(accession, norm_method, n_pca_components) up to the check
\* of the raw file (scripts.py:25-31)
RunPreprocessing(accession, norm_method, n_pca_components) ==
    /\ pc = "idle"
    /\ run.op = "none"
    /\ LET frame == RunFrame("run_preprocessing", accession, "", norm_method,
                             n_pca_components)
       IN  IF accession \notin fs.raw
           THEN RunRaises(frame, "FileNotFoundError",
                          <<"Expected file not found: ", RawFilePath(accession)>>)
           ELSE /\ run' = [frame EXCEPT !.pos = "load_config"]
                /\ UNCHANGED <<exc, message, pc>>
    /\ UNCHANGED <<raw, call, data, ret, warnings, stages, registry, fs, observed, aliased>>

\* run_experiment(accession, algo_name, data_branch) of src/pipeline.py up to
\* the check of the raw file (pipeline.py:12-18)
PipelineRunExperiment(accession, algo_name, data_branch) ==
    /\ pc = "idle"
    /\ run.op = "none"
    /\ LET frame == RunFrame("pipeline.run_experiment", accession, algo_name,
                             data_branch, 0)
       IN  IF accession \notin fs.raw
           THEN RunRaises(frame, "FileNotFoundError",
                          <<"Expected file not found: ", RawFilePath(accession)>>)
           ELSE /\ run' = [frame EXCEPT !.pos = "load_config"]
                /\ UNCHANGED <<exc, message, pc>>
    /\ UNCHANGED <<raw, call, data, ret, warnings, stages, registry, fs, observed, aliased>>

\* config = load_dataset_config(dataset_dir); species = config.get("species")
RunLoadConfig ==
    /\ run.pos = "load_config"
    /\ LET config == load_dataset_config(fs.config)
       IN  IF config.t = "none"
           THEN RunRaises(RunStep(run, "failed", "load_dataset_config"), "AttributeError",
                          <<"'NoneType' object has no attribute 'get'">>)
           ELSE /\ run' = [RunStep(run, "preprocess", "load_dataset_config") EXCEPT
                              !.config = config,
                              !.species = SpeciesOrDefault(DictGet(config, "species"))]
                /\ UNCHANGED <<exc, message, pc>>
    /\ UNCHANGED <<raw, call, data, ret, warnings, stages, registry, fs, observed, aliased>>

\* raw_data = load_csv_data(raw_file_path); preprocess_data(raw_data,
\* norm_method=..., species=species if species else "human", ...) is entered
RunPreprocessData ==
    /\ run.op = "run_preprocessing"
    /\ run.pos = "preprocess"
    /\ run' = RunStep(RunStep(run, "preprocessing", "load_csv_data"),
                      "preprocessing", "preprocess_data")
    /\ call' = [Call("preprocess_data", 0) EXCEPT
                   !.norm_method = run.norm_method, !.species = run.species,
                   !.n_components = run.n_components]
    /\ pc' = "filter_low_magnitude"
    /\ data' = raw
    /\ UNCHANGED <<raw, ret, exc, warnings, stages, registry, message, fs, observed, aliased>>

\* os.makedirs(output_dir, exist_ok=True); preprocessed_data.to_csv(save_path)
RunSavePreprocessed ==
    /\ run.op = "run_preprocessing"
    /\ run.pos = "preprocessing"
    /\ pc = "returned"
    /\ run' = RunStep(RunStep(run, "done", "makedirs"), "done", "to_csv")
    /\ fs' = [fs EXCEPT
                 !.results_dir = @ \cup {run.accession},
                 !.artifacts = ToCsv(@, run.accession,
                                     PreprocessedFilename(run.norm_method), ret[1])]
    /\ UNCHANGED <<raw, call, pc, data, ret, exc, warnings, stages, registry,
                   message, observed, aliased>>

\* preprocess_data(raw_data, branch=data_branch, species=...): the exported
\* preprocess_data has no parameter named branch
PipelineRunPreprocessData ==
    /\ run.op = "pipeline.run_experiment"
    /\ run.pos = "preprocess"
    /\ RunRaises(RunStep(run, "failed", "load_csv_data"), "TypeError",
                 <<"preprocess_data() got an unexpected keyword argument 'branch'">>)
    /\ UNCHANGED <<raw, call, data, ret, warnings, stages, registry, fs, observed, aliased>>


\* mutant: any stored file of the accession passes the check and is loaded
RunExperiment_anyFile(accession, algo_name, norm_method) ==
    /\ pc = "idle"
    /\ run.op = "none"
    /\ LET frame == RunFrame("run_experiment", accession, algo_name, norm_method, 0)
           stored == {a \in fs.artifacts : a.accession = accession}
       IN  IF stored = {}
           THEN RunRaises(frame, "FileNotFoundError", <<"Preprocessed file not found: ">>)
           ELSE /\ run' = [RunStep(frame, "lookup", "load_csv_data") EXCEPT
                              !.target_data = <<(CHOOSE a \in stored : TRUE).content>>]
                /\ UNCHANGED <<exc, message, pc>>
    /\ UNCHANGED <<raw, call, data, ret, warnings, stages, registry, fs, observed, aliased>>

\* run_experiment(accession, algo_name, norm_method) of scripts.py up to the
\* loading of the preprocessed file (scripts.py:77-95)
RunExperiment(accession, algo_name, norm_method) ==
    /\ pc = "idle"
    /\ run.op = "none"
    /\ LET frame == RunFrame("run_experiment", accession, algo_name, norm_method, 0)
           preprocessed_filename == PreprocessedFilename(norm_method)
       IN  IF ~HasArtifact(fs.artifacts, accession, preprocessed_filename)
           THEN RunRaises(frame, "FileNotFoundError",
                          <<"Preprocessed file not found: ", preprocessed_filename,
                            "Run preprocessing first with: run_preprocessing('",
                            accession, "', '", norm_method, "')">>)
           ELSE /\ run' = [RunStep(frame, "lookup", "load_csv_data") EXCEPT
                              !.target_data =
                                  <<ReadArtifact(fs.artifacts, accession,
                                                 preprocessed_filename)>>]
                /\ UNCHANGED <<exc, message, pc>>
    /\ UNCHANGED <<raw, call, data, ret, warnings, stages, registry, fs, observed, aliased>>

\* config = load_dataset_config(dataset_dir);
\* cluster_func = get_clustering_strategy(algo_name);
\* n_clusters = config.get("n_clusters")
RunExperimentLookup ==
    /\ run.op = "run_experiment"
    /\ run.pos = "lookup"
    /\ LET config == load_dataset_config(fs.config)
           looked_up == get_clustering_strategy(registry, run.algo_name)
           frame == RunStep(run, "cluster", "load_dataset_config")
       IN  IF looked_up.exc # "none"
           THEN RunRaises(frame, looked_up.exc, looked_up.message)
           ELSE IF config.t = "none"
           THEN RunRaises(RunStep(frame, "failed", "get_clustering_strategy"),
                          "AttributeError",
                          <<"'NoneType' object has no attribute 'get'">>)
           ELSE /\ run' = [RunStep(frame, "cluster", "get_clustering_strategy") EXCEPT
                              !.config = config,
                              !.labels = looked_up.ret,
                              !.n_clusters =
                                  NClustersOrDefault(DictGet(config, "n_clusters"))]
                /\ UNCHANGED <<exc, message, pc>>
    /\ UNCHANGED <<raw, call, data, ret, warnings, stages, registry, fs, observed, aliased>>

\* labels = cluster_func(target_data, n_clusters=n_clusters if n_clusters else 5)
RunExperimentCluster ==
    /\ run.op = "run_experiment"
    /\ run.pos = "cluster"
    /\ \E o \in CallStrategy(run.labels[1], run.target_data[1], run.n_clusters) :
          IF o.exc # "none"
          THEN RunRaises(RunStep(run, "failed", "cluster_func"), o.exc,
                         <<"n_samples should be >= n_clusters">>)
          ELSE /\ run' = [RunStep(run, "save", "cluster_func") EXCEPT
                             !.labels = <<o.labels>>]
               /\ UNCHANGED <<exc, message, pc>>
    /\ UNCHANGED <<raw, call, data, ret, warnings, stages, registry, fs, observed, aliased>>

\* os.makedirs(output_dir, exist_ok=True); target_data["cluster"] = labels;
\* target_data.to_csv(save_path)
RunExperimentSave ==
    /\ run.op = "run_experiment"
    /\ run.pos = "save"
    /\ LET clustered == WithClusterColumn(run.target_data[1], run.labels[1])
       IN  /\ run' = [RunStep(RunStep(run, "done", "makedirs"), "done", "to_csv") EXCEPT
                         !.target_data = <<clustered>>]
           /\ fs' = [fs EXCEPT
                        !.results_dir = @ \cup {run.accession},
                        !.artifacts = ToCsv(@, run.accession,
                                            ClusteredFilename(run.norm_method,
                                                              run.algo_name),
                                            clustered)]
           /\ pc' = "returned"
    /\ UNCHANGED <<raw, call, data, ret, exc, warnings, stages, registry,
                   message, observed, aliased>>

\* ---------------------------------------------------- inputs of the scripts
Accessions == {"GSE1", "GSE2"}

ConfigFields(species, n_clusters) ==
    [k \in (IF species = "" THEN {} ELSE {"species"})
              \cup (IF n_clusters < 0 THEN {} ELSE {"n_clusters"}) |->
        IF k = "species" THEN PyStr(species) ELSE PyInt(n_clusters)]

\* no config.yaml, an empty one, or a mapping with any of the two fields
\* ("" and -1 stand for an absent field)
ConfigFiles ==
    {NoConfigFile, EmptyConfigFile}
        \cup {MappingConfigFile(ConfigFields(s, n)) :
                 s \in {"", "human", "mouse"}, n \in {-1, 0, 2}}

\* a reduced matrix of n cells, as an earlier run_preprocessing stored it
ReducedFrame(n) ==
    Frame(CellIndex(n), <<"PC1">>, [p \in (1..n) \X {"PC1"} |-> Component(1)])

StoredArtifacts ==
    {{}} \cup {{Artifact("GSE1", PreprocessedFilename("pearson"), ReducedFrame(n))} :
                  n \in {2, 6}}

InitRuns ==
    /\ raw \in Fixtures
    /\ \E present \in SUBSET Accessions, config \in ConfigFiles,
          artifacts \in StoredArtifacts :
          fs = [raw |-> present, config |-> config,
                results_dir |-> {a.accession : a \in artifacts},
                artifacts |-> artifacts]
    /\ Idle

\* the scripts, the registry lookup and the stages of the preprocess_data that
\* run_preprocessing calls
NextRuns ==
    \/ \E n \in AlgoNames : GetClusteringStrategy(n)
    \/ \E a \in Accessions, n \in NormMethods, k \in Components :
          RunPreprocessing(a, n, k)
    \/ \E a \in Accessions, n \in AlgoNames, b \in NormMethods :
          PipelineRunExperiment(a, n, b)
    \/ \E a \in Accessions, n \in AlgoNames, m \in NormMethods :
          RunExperiment(a, n, m)
    \/ RunLoadConfig
    \/ RunPreprocessData
    \/ PipelineRunPreprocessData
    \/ RunSavePreprocessed
    \/ RunExperimentLookup
    \/ RunExperimentCluster
    \/ RunExperimentSave
    \/ FilterLowMagnitude
    \/ FilterApoptosis
    \/ FilterRrna
    \/ FilterMito
    \/ NormalizeLibrarySize
    \/ LogTransform
    \/ NormalizePearson
    \/ RaiseUnknownMethod
    \/ ApplyPca

SpecRuns == InitRuns /\ [][NextRuns]_vars


\* ------------------------------------------- repeated calls on one input
Observation(fn, arg, result) == [fn |-> fn, arg |-> arg, result |-> result]

\* apply_pca(raw, n_components) is called (again) and its result recorded
RepeatApplyPca(n_components) ==
    /\ pc = "idle"
    /\ observed' = observed \cup
           {Observation("apply_pca", n_components, apply_pca(raw, n_components))}
    /\ UNCHANGED <<raw, call, pc, data, ret, exc, warnings, stages, registry,
                   message, fs, run, aliased>>

\* the strategy registered as name is called (again) with n_clusters
RepeatStrategy(name, n_clusters) ==
    /\ pc = "idle"
    /\ \E o \in CallStrategy(get_clustering_strategy(registry, name).ret[1], raw,
                             n_clusters) :
          observed' = observed \cup {Observation(name, n_clusters, o)}
    /\ UNCHANGED <<raw, call, pc, data, ret, exc, warnings, stages, registry,
                   message, fs, run, aliased>>

InitRepeat ==
    /\ raw \in Fixtures \cup {ReducedFrame(n) : n \in {2, 6}}
    /\ fs = NoFiles
    /\ Idle

NextRepeat ==
    \/ \E n \in Components : RepeatApplyPca(n)
    \/ \E name \in Range(Keys(STRATEGY_REGISTRY)), k \in {2, 3} :
          RepeatStrategy(name, k)

SpecRepeat == InitRepeat /\ [][NextRepeat]_vars


\* -------------------------------------- normalize_data_with_pearson alone
PearsonGenes == <<"ACTB", "GAPDH", "BAX">>
HvgCounts == {1, 2, DEFAULT_N_HVG}

\* raw is a count matrix of two cells over three genes
InitPearson ==
    /\ \E f \in [(1..2) \X Range(PearsonGenes) -> Counts] :
          raw = Frame(CellIndex(2), PearsonGenes, f)
    /\ fs = NoFiles
    /\ Idle

NextPearson == \E n_hvg \in HvgCounts : CallNormalizePearson(n_hvg)

SpecPearson == InitPearson /\ [][NextPearson]_vars


\* -------------------------------------------- select_hvg_by_variance alone
CallSelectHvg(n_top_genes, percentile) ==
    /\ pc = "idle"
    /\ \E top \in select_hvg_by_variance(raw, n_top_genes, percentile) :
          Finish([Call("select_hvg_by_variance", 0) EXCEPT
                     !.arg = <<n_top_genes, percentile>>],
                 Outcome(top, FALSE, "none"))

\* raw is one of the fixtures of test_utils.py or a count matrix of one or
\* two cells over three genes
InitHvg ==
    /\ \/ raw \in {hvg_data, df_const}
       \/ \E n \in 1..2 : \E f \in [(1..n) \X Range(PearsonGenes) -> Counts] :
             raw = Frame(CellIndex(n), PearsonGenes, f)
    /\ fs = NoFiles
    /\ Idle

NextHvg == \E a \in HvgCalls : CallSelectHvg(a[1], a[2])

SpecHvg == InitHvg /\ [][NextHvg]_vars


\* ------------------------------------- preprocessing/workflow.py (variant)
\* preprocess_data(raw_data, branch) of workflow.py: the filters with their
\* default species, then the requested branch; no PCA
WorkflowPreprocessData(branch) ==
    /\ pc = "idle"
    /\ call' = [Call("workflow.preprocess_data", 0) EXCEPT
                   !.norm_method = branch, !.species = "human"]
    /\ pc' = "filter_low_magnitude"
    /\ data' = raw
    /\ UNCHANGED <<raw, ret, exc, warnings, stages, orch, aliased>>

\* if branch == "log_cpm": return normalize_data_with_log_cpm(clean_data)
WorkflowLogCpm ==
    /\ pc = "normalize"
    /\ call.op = "workflow.preprocess_data"
    /\ Branch(call.norm_method) = "log_cpm"
    /\ stages' = stages \o <<"normalize_by_library_size", "log_transform">>
    /\ ret' = <<normalize_data_with_log_cpm(data)>>
    /\ pc' = "returned"
    /\ aliased' = FALSE
    /\ UNCHANGED <<raw, call, data, exc, warnings, orch>>

\* elif branch == "pearson": return normalize_data_with_pearson(clean_data)
WorkflowPearson ==
    /\ pc = "normalize"
    /\ call.op = "workflow.preprocess_data"
    /\ Branch(call.norm_method) = "pearson"
    /\ stages' = Append(stages, "normalize_data_with_pearson")
    /\ \E pearson_df \in normalize_data_with_pearson(data, DEFAULT_N_HVG) :
          ret' = <<pearson_df>>
    /\ pc' = "returned"
    /\ aliased' = FALSE
    /\ UNCHANGED <<raw, call, data, exc, warnings, orch>>

\* else: raise ValueError(f"Unknown preprocessing branch: {branch}")
WorkflowRaiseUnknownBranch ==
    /\ pc = "normalize"
    /\ call.op = "workflow.preprocess_data"
    /\ Branch(call.norm_method) = "error"
    /\ pc' = "raised"
    /\ exc' = "ValueError"
    /\ UNCHANGED <<raw, call, data, ret, warnings, stages, orch, aliased>>

\* runs of the two preprocess_data that take a method selector, with the
\* default species and one component
NextSelector ==
    \/ \E n \in NormMethods : PreprocessData(n, "human", 1)
    \/ \E b \in NormMethods : WorkflowPreprocessData(b)
    \/ FilterLowMagnitude
    \/ FilterApoptosis
    \/ FilterRrna
    \/ FilterMito
    \/ NormalizeLibrarySize
    \/ LogTransform
    \/ NormalizePearson
    \/ RaiseUnknownMethod
    \/ ApplyPca
    \/ WorkflowLogCpm
    \/ WorkflowPearson
    \/ WorkflowRaiseUnknownBranch

SpecSelector == Init /\ [][NextSelector]_vars


\* ------------------------------------- script functions called in sequence
MaxRuns == 2

\* the script function has returned or raised; the files it wrote stay, and
\* the caller (run_preprocessing.py, run_benchmarks.py, a later session) may
\* call the next one
RunReturns ==
    /\ run.op # "none"
    /\ run.pos \in {"done", "failed"} \/ pc = "raised"
    /\ Cardinality(observed) + 1 < MaxRuns
    /\ observed' = observed \cup
           {Observation(run.op, <<run.accession, run.norm_method, run.algo_name>>,
                        IF run.pos = "done" THEN "done" ELSE "failed")}
    /\ run' = NoRun
    /\ call' = NoCall
    /\ pc' = "idle"
    /\ data' = raw
    /\ ret' = <<>>
    /\ exc' = "none"
    /\ warnings' = 0
    /\ stages' = <<>>
    /\ message' = <<>>
    /\ aliased' = FALSE
    /\ UNCHANGED <<raw, registry, fs>>

SessionConfigs == {NoConfigFile, MappingConfigFile(ConfigFields("human", 2))}
SessionMethods == {"log_cpm", "pearson"}
SessionAlgos == {"kmeans", "dbscan"}

\* a data directory with raw files and without results
InitSessions ==
    /\ raw \in Fixtures
    /\ \E present \in SUBSET Accessions, config \in SessionConfigs :
          fs = [raw |-> present, config |-> config, results_dir |-> {},
                artifacts |-> {}]
    /\ Idle

NextSessions ==
    \/ \E a \in Accessions, n \in SessionMethods : RunPreprocessing(a, n, 1)
    \/ \E a \in Accessions, n \in SessionAlgos, m \in SessionMethods :
          RunExperiment(a, n, m)
    \/ \E a \in Accessions, n \in SessionAlgos, b \in SessionMethods :
          PipelineRunExperiment(a, n, b)
    \/ RunLoadConfig
    \/ RunPreprocessData
    \/ PipelineRunPreprocessData
    \/ RunSavePreprocessed
    \/ RunExperimentLookup
    \/ RunExperimentCluster
    \/ RunExperimentSave
    \/ FilterLowMagnitude
    \/ FilterApoptosis
    \/ FilterRrna
    \/ FilterMito
    \/ NormalizeLibrarySize
    \/ LogTransform
    \/ NormalizePearson
    \/ ApplyPca
    \/ RunReturns

SpecSessions == InitSessions /\ [][NextSessions]_vars


\* =========================================================================
\* Properties.  The expected results are computed on integers, from the raw
\* counts, independently of the operators above.
\* =========================================================================
Returned(op) == pc = "returned" /\ call.op = op

Count(frame, c, g) == frame.val[<<c, g>>].n

RECURSIVE IntSum(_, _, _)
IntSum(frame, c, genes) ==
    IF genes = {} THEN 0
    ELSE LET g == CHOOSE x \in genes : TRUE
         IN  Count(frame, c, g) + IntSum(frame, c, genes \ {g})

\* position of a label in a sequence of distinct labels
Pos(seq, x) == CHOOSE i \in 1..Len(seq) : seq[i] = x

\* sub is a subsequence of seq: same relative order, nothing new
IsSubsequence(sub, seq) ==
    /\ Range(sub) \subseteq Range(seq)
    /\ \A i, j \in 1..Len(sub) : i < j => Pos(seq, sub[i]) < Pos(seq, sub[j])

\* out holds the values of frame on its own rows and columns
SameValues(out, frame) ==
    \A c \in Range(out.index), g \in Range(out.columns) :
        out.val[<<c, g>>] = frame.val[<<c, g>>]

\* ratio subset_sum / total_sum of cell c as a pair of integers, the
\* denominator being 1 for a cell without counts
RatioNum(frame, genes, c) == IntSum(frame, c, genes)
RatioDen(frame, c) ==
    LET total == IntSum(frame, c, Range(frame.columns))
    IN  IF total = 0 THEN 1 ELSE total

RatioLess(frame, genes, c1, c2) ==
    RatioNum(frame, genes, c1) * RatioDen(frame, c2)
        < RatioNum(frame, genes, c2) * RatioDen(frame, c1)

\* a cell holding the k-th smallest ratio (k = 0 ..)
CellOfRank(frame, genes, k) ==
    CHOOSE c \in Range(frame.index) :
        /\ Cardinality({x \in Range(frame.index) : RatioLess(frame, genes, x, c)}) <= k
        /\ k < Cardinality({x \in Range(frame.index) : ~RatioLess(frame, genes, c, x)})

\* the sign of ratio(c) - cutoff, the cutoff being a + (fr / 100) * (b - a),
\* where a and b are the ratios of the cells ca and cb and fr is in hundredths
GapAround(frame, genes, fr, ca, cb, c) ==
    LET sa == RatioNum(frame, genes, ca)
        da == RatioDen(frame, ca)
        sb == RatioNum(frame, genes, cb)
        db == RatioDen(frame, cb)
        sc == RatioNum(frame, genes, c)
        dc == RatioDen(frame, c)
    IN  100 * (sc * da - sa * dc) * db - fr * (sb * da - sa * db) * dc

\* the sign of ratio(c) - P-th percentile: ca and cb are the cells of ranks
\* lo and lo + 1 around the virtual index P / 100 * (n - 1) and fr is its
\* fractional part
PercentileGap(frame, genes, P, c) ==
    LET n == Len(frame.index)
        lo == (P * (n - 1)) \div 100
        fr == (P * (n - 1)) % 100
        ca == CellOfRank(frame, genes, lo)
        cb == CellOfRank(frame, genes, IF lo + 1 <= n - 1 THEN lo + 1 ELSE lo)
    IN  GapAround(frame, genes, fr, ca, cb, c)

BelowPercentile(frame, genes, P, c) == PercentileGap(frame, genes, P, c) < 0
AtPercentile(frame, genes, P, c) == PercentileGap(frame, genes, P, c) = 0

\* the cells of frame whose gap to the P-th percentile is in signs (-1 for
\* below, 0 for on the cutoff), in order
CellsByGap(frame, genes, P, signs) ==
    LET n == Len(frame.index)
        lo == (P * (n - 1)) \div 100
        fr == (P * (n - 1)) % 100
        ca == CellOfRank(frame, genes, lo)
        cb == CellOfRank(frame, genes, IF lo + 1 <= n - 1 THEN lo + 1 ELSE lo)
        Sign(v) == IF v < 0 THEN -1 ELSE IF v = 0 THEN 0 ELSE 1
    IN  SelectSeq(frame.index,
                  LAMBDA c : Sign(GapAround(frame, genes, fr, ca, cb, c)) \in signs)

\* the cells of frame with ratio strictly below the P-th percentile, in order
CellsBelowPercentile(frame, genes, P) == CellsByGap(frame, genes, P, {-1})

\* the cells of frame with ratio equal to the P-th percentile
CellsAtPercentile(frame, genes, P) == Range(CellsByGap(frame, genes, P, {0}))

Upper(ch) == CASE ch = "m" -> "M" [] ch = "t" -> "T" [] ch = "o" -> "O"
               [] ch = "a" -> "A" [] ch = "x" -> "X" [] OTHER -> ch

\* columns with the prefix "MT-" in exactly this case / in any case
MitoColumns(frame) ==
    {g \in Range(frame.columns) :
        Len(Chars(g)) >= 3 /\ <<Chars(g)[1], Chars(g)[2], Chars(g)[3]>> = <<"M", "T", "-">>}
MitoColumnsAnyCase(frame) ==
    {g \in Range(frame.columns) :
        /\ Len(Chars(g)) >= 3
        /\ <<Upper(Chars(g)[1]), Upper(Chars(g)[2]), Chars(g)[3]>> = <<"M", "T", "-">>}

\* the gene set of the finished fraction-filter call, as found among raw's columns
IsFractionCall == call.op \in {"filter_high_mito_cells", "filter_cells_by_fraction"}
GeneSetFound ==
    IF call.op = "filter_high_mito_cells" THEN MitoColumns(raw)
    ELSE Range(call.gene_list) \cap Range(raw.columns)

\* C1: filter_low_magnitude_genes returns exactly the input genes whose
\* maximum over all cells is >= min_count, in their original order and with
\* their values, and keeps every cell; with min_count = 2 a gene holding only
\* 0/1 values is dropped and a gene with a single value >= 2 is kept.
C1_MagnitudeFilterKeepsGenesReachingMinCount ==
    Returned("filter_low_magnitude_genes") =>
        LET out == ret[1]
            reaching == {g \in Range(raw.columns) :
                            \E c \in Range(raw.index) : Count(raw, c, g) >= call.arg}
        IN  /\ out.index = raw.index
            /\ Range(out.columns) = reaching
            /\ Len(out.columns) = Cardinality(reaching)
            /\ IsSubsequence(out.columns, raw.columns)
            /\ SameValues(out, raw)
            /\ call.arg = DEFAULT_MIN_COUNT =>
                  \A g \in Range(raw.columns) :
                     /\ (\A c \in Range(raw.index) : Count(raw, c, g) \in {0, 1})
                           => g \notin Range(out.columns)
                     /\ Cardinality({c \in Range(raw.index) : Count(raw, c, g) >= 2}) = 1
                           => g \in Range(out.columns)

\* a 0/1 gene was dropped and a gene with one value >= 2 was kept
C1_Witness ==
    /\ Returned("filter_low_magnitude_genes")
    /\ call.arg = DEFAULT_MIN_COUNT
    /\ \E g \in Range(raw.columns) \ Range(ret[1].columns) :
          \E c \in Range(raw.index) : Count(raw, c, g) = 1
    /\ \E g \in Range(ret[1].columns) :
          Cardinality({c \in Range(raw.index) : Count(raw, c, g) >= 2}) = 1

\* C2: in percentile mode, when the gene set matches a column, the fraction
\* filter keeps exactly the cells whose ratio is strictly below the P-th
\* percentile (linear interpolation) of the ratios of all cells; a cell whose
\* ratio equals the cutoff is dropped; ratios {1.0, 0.5, 0.0} with P = 67 lose
\* the cell with ratio 1.0 only.
C2_PercentileKeepsStrictlyBelowCutoff ==
    /\ (IsFractionCall /\ GeneSetFound # {}) =>
          /\ pc = "returned"
          /\ ret[1].index = CellsBelowPercentile(raw, GeneSetFound, call.arg)
          /\ CellsAtPercentile(raw, GeneSetFound, call.arg) \cap Range(ret[1].index) = {}
          /\ ret[1].columns = raw.columns
          /\ SameValues(ret[1], raw)
    /\ (/\ call.op = "filter_cells_by_fraction"
        /\ raw = fraction_data
        /\ call.arg = 67
        /\ "Target_1" \in Range(call.gene_list)) => ret = <<SelectRows(raw, {2, 3})>>

\* a cell sitting exactly on the cutoff was dropped while another was kept
C2_Witness ==
    /\ Returned("filter_high_mito_cells")
    /\ GeneSetFound # {}
    /\ ret[1].index # <<>>
    /\ \E c \in Range(raw.index) \ Range(ret[1].index) :
          AtPercentile(raw, GeneSetFound, call.arg, c)

\* 0 < cutoff, the ratio of a cell without counts being 0 / 1
ZeroBelowPercentile(frame, genes, P) ==
    LET n == Len(frame.index)
        lo == (P * (n - 1)) \div 100
        fr == (P * (n - 1)) % 100
        ca == CellOfRank(frame, genes, lo)
        cb == CellOfRank(frame, genes, IF lo + 1 <= n - 1 THEN lo + 1 ELSE lo)
        sa == RatioNum(frame, genes, ca)
        da == RatioDen(frame, ca)
        sb == RatioNum(frame, genes, cb)
        db == RatioDen(frame, cb)
    IN  0 < 100 * sa * db + fr * (sb * da - sa * db)

HasNoCounts(frame, c) == \A g \in Range(frame.columns) : Count(frame, c, g) = 0

\* C3: a cell whose total count is 0 has ratio 0 (denominator 1): the fraction
\* filter does not raise on it and keeps it iff 0 is strictly below the cutoff.
C3_ZeroTotalCellHasRatioZero ==
    (IsFractionCall /\ GeneSetFound # {}) =>
        \A c \in Range(raw.index) :
            HasNoCounts(raw, c) =>
                /\ pc = "returned"
                /\ exc = "none"
                /\ c \in Range(ret[1].index)
                      <=> ZeroBelowPercentile(raw, GeneSetFound, call.arg)

\* a cell without counts was kept while another cell was dropped
C3_Witness ==
    /\ Returned("filter_high_mito_cells")
    /\ GeneSetFound # {}
    /\ \E c \in Range(ret[1].index) : HasNoCounts(raw, c)
    /\ Len(ret[1].index) < Len(raw.index)

\* the gene set of the fraction-filter stage at pc is absent from data
StageGeneSetAbsent ==
    \/ pc = "filter_mito" /\ MitoColumnsAnyCase(data) = {}
    \/ pc = "filter_apoptosis"
          /\ Range(APOPTOSIS_GENES(call.species)) \cap Range(data.columns) = {}
    \/ pc = "filter_rrna"
          /\ Range(RRNA_GENES(call.species)) \cap Range(data.columns) = {}

NextStage(stage) ==
    CASE stage = "filter_apoptosis" -> "filter_rrna"
      [] stage = "filter_rrna" -> "filter_mito"
      [] stage = "filter_mito" -> "normalize"
      [] OTHER -> "none"

CellsAtMost(frame, genes, t) ==
    SelectSeq(frame.index,
              LAMBDA c : RatioNum(frame, genes, c) <= t * RatioDen(frame, c))

\* C5 as stated: with a fixed fraction t in [0,1] as cutoff the fraction
\* filter keeps exactly the cells whose ratio is <= t, whatever the other
\* cells are.
C5_FixedThresholdKeepsRatioAtMostT ==
    (Returned("filter_high_mito_cells") /\ GeneSetFound # {} /\ call.arg \in {0, 1}) =>
        ret[1].index = CellsAtMost(raw, GeneSetFound, call.arg)

\* C5 amended: the fraction filter has percentile mode only.  Its cutoff
\* argument is always read as a percentile: with t in [0,1] it keeps exactly
\* the cells whose ratio is strictly below the t-th percentile of the ratios
\* of all cells (no cell for t = 0, never a cell of maximal ratio), so a cell
\* with ratio <= t can be dropped.
C5_CutoffArgumentIsAlwaysAPercentile ==
    (IsFractionCall /\ GeneSetFound # {} /\ call.arg \in {0, 1}) =>
        /\ pc = "returned"
        /\ ret[1].index = CellsBelowPercentile(raw, GeneSetFound, call.arg)
        /\ call.arg = 0 => ret[1].index = <<>>
        /\ \A c \in Range(ret[1].index) :
              \E x \in Range(raw.index) : RatioLess(raw, GeneSetFound, c, x)

\* with t = 1 a cell was kept and a cell with ratio <= 1 was dropped
C5_Witness ==
    /\ Returned("filter_high_mito_cells")
    /\ GeneSetFound # {}
    /\ call.arg = 1
    /\ ret[1].index # <<>>
    /\ \E c \in Range(raw.index) \ Range(ret[1].index) :
          RatioNum(raw, GeneSetFound, c) <= call.arg * RatioDen(raw, c)

\* C6: the prefix "MT-" is matched in any case: a matrix whose only
\* mitochondrial columns start with "mt-" is filtered on them, not skipped.
C6_MitoPrefixIsCaseInsensitive ==
    (Returned("filter_high_mito_cells") /\ MitoColumnsAnyCase(raw) # {}) =>
        /\ warnings = 0
        /\ ret[1].index = CellsBelowPercentile(raw, MitoColumnsAnyCase(raw), call.arg)

\* C7: after normalize_by_library_size(m, R) every row with a nonzero input
\* sum sums to R and each of its entries is input / row_sum * R.
C7_RowsSumToRescale ==
    Returned("normalize_by_library_size") =>
        \A c \in Range(raw.index) :
            LET total == IntSum(raw, c, Range(raw.columns))
            IN  total # 0 =>
                  /\ \A g \in Range(raw.columns) :
                        LET out == ret[1].val[<<c, g>>]
                        IN  /\ out.k = "num"
                            /\ out.n * total = Count(raw, c, g) * call.arg * out.d
                  /\ RowSum(ret[1], c, ret[1].columns) = Int2V(call.arg)

\* a row with two nonzero counts was rescaled to 10000
C7_Witness ==
    /\ Returned("normalize_by_library_size")
    /\ call.arg = 10000
    /\ \E c \in Range(raw.index) :
          /\ \A g \in Range(raw.columns) : Count(raw, c, g) > 0
          /\ \E g \in Range(raw.columns) : ret[1].val[<<c, g>>].d # 1

\* C8: normalize_by_library_size does not raise on a cell without counts: its
\* output row is all zeros, no nan or infinity is anywhere in the output and
\* the output has the rows and columns of the input.
C8_ZeroTotalRowNormalizesToZeros ==
    call.op = "normalize_by_library_size" =>
        /\ pc = "returned"
        /\ exc = "none"
        /\ ret[1].index = raw.index
        /\ ret[1].columns = raw.columns
        /\ \A c \in Range(raw.index), g \in Range(raw.columns) :
              /\ ret[1].val[<<c, g>>].k = "num"
              /\ HasNoCounts(raw, c) => ret[1].val[<<c, g>>] = Zero

\* a matrix with a cell without counts and a cell with counts was normalized
C8_Witness ==
    /\ Returned("normalize_by_library_size")
    /\ \E c \in Range(raw.index) : HasNoCounts(raw, c)
    /\ \E c \in Range(raw.index) : ~HasNoCounts(raw, c)

RECURSIVE TenTo(_)
TenTo(k) == IF k = 0 THEN 1 ELSE 10 * TenTo(k - 1)

\* 10 ^ v: the number whose decimal logarithm is v
Exp10(v) ==
    CASE v.k = "num" /\ v.d = 1 /\ v.n >= 0 -> Int2V(TenTo(v.n))
      [] v.k = "log10" -> Num(v.n, v.d)
      [] v.k = "neginf" -> Zero
      [] OTHER -> NaN

NormalizationStages ==
    {"normalize_by_library_size", "log_transform", "normalize_data_with_pearson",
     "apply_pca"}

\* C10: preprocess_data with a normalization method other than "log_cpm" and
\* "pearson" fails with a ValueError: no branch is taken as a fallback, no
\* normalization or reduction stage runs and no matrix is returned.
C10_UnknownMethodIsAConfigurationError ==
    (call.op = "preprocess_data" /\ call.norm_method \notin {"log_cpm", "pearson"}) =>
        /\ pc \notin {"log_transform", "apply_pca", "returned"}
        /\ ret = <<>>
        /\ \A i \in 1..Len(stages) : stages[i] \notin NormalizationStages
        /\ pc = "raised" => exc = "ValueError"
        /\ pc = "normalize" =>
              /\ ENABLED RaiseUnknownMethod
              /\ ~ENABLED NormalizeLibrarySize
              /\ ~ENABLED NormalizePearson

\* the run with an unknown method has raised after the four filters
C10_Witness ==
    /\ call.op = "preprocess_data"
    /\ call.norm_method = "cpm"
    /\ pc = "raised"
    /\ exc = "ValueError"
    /\ Len(stages) = 4

\* ------------------------------------------------------------------- C11
Ran(stage) == \E i \in 1..Len(stages) : stages[i] = stage

\* the normalization functions called so far, in order
NormalizersRun ==
    SelectSeq(stages, LAMBDA s : s \in {"normalize_by_library_size", "log_transform",
                                        "normalize_data_with_pearson"})

\* normalization of the run is over
NormalizationDone == Ran("apply_pca") \/ pc \in {"apply_pca", "returned"}

\* C11 as stated: every invocation of a preprocess_data runs exactly one
\* normalization branch, library size + log transform or Pearson residuals,
\* and never both.
C11_ExactlyOneNormalizationBranchRuns ==
    call.op \in {"preprocess_data", "pipeline.preprocess_data"} =>
        /\ ~(Ran("normalize_by_library_size") /\ Ran("normalize_data_with_pearson"))
        /\ NormalizationDone =>
              NormalizersRun \in {<<"normalize_by_library_size", "log_transform">>,
                                  <<"normalize_data_with_pearson">>}

\* C11 amended: the preprocess_data the package exports runs exactly the
\* branch its norm_method selects (log_cpm: library size then log transform,
\* never Pearson; pearson: Pearson only), while the preprocess_data of
\* preprocessing/pipeline.py has no selector and runs both branches, each on
\* the same filtered matrix, and returns both results.
C11_OnlyTheSelectorlessVariantRunsBothBranches ==
    /\ call.op = "preprocess_data" =>
          /\ call.norm_method = "log_cpm" =>
                /\ ~Ran("normalize_data_with_pearson")
                /\ NormalizationDone =>
                      NormalizersRun = <<"normalize_by_library_size", "log_transform">>
          /\ call.norm_method = "pearson" =>
                /\ ~Ran("normalize_by_library_size")
                /\ ~Ran("log_transform")
                /\ NormalizationDone => NormalizersRun = <<"normalize_data_with_pearson">>
          /\ call.norm_method \notin {"log_cpm", "pearson"} => NormalizersRun = <<>>
    /\ (call.op = "pipeline.preprocess_data" /\ pc = "returned") =>
          /\ NormalizersRun = <<"normalize_by_library_size", "log_transform",
                                "normalize_data_with_pearson">>
          /\ Len(ret) = 2
          /\ ret[1] = log_transform(normalize_by_library_size(data, CPM_RESCALE), 1)
          /\ ret[2].index = data.index
          /\ ret[2].columns = data.columns
          /\ \A p \in DOMAIN ret[2].val : ret[2].val[p].k = "resid"

\* the variant of pipeline.py has returned both normalizations of a matrix
\* that kept cells and genes
C11_Witness ==
    /\ call.op = "pipeline.preprocess_data"
    /\ pc = "returned"
    /\ Ran("normalize_by_library_size")
    /\ Ran("normalize_data_with_pearson")
    /\ data.index # <<>>
    /\ data.columns # <<>>

\* ------------------------------------------------------------------- C12
FilterStages ==
    <<"filter_low_magnitude_genes", "filter_high_apoptosis_cells",
      "filter_high_rrna_cells", "filter_high_mito_cells">>

\* the stage sequence of a complete run with the given method
ExpectedStages(norm_method) ==
    FilterStages
        \o (IF norm_method = "log_cpm"
            THEN <<"normalize_by_library_size", "log_transform">>
            ELSE IF norm_method = "pearson" THEN <<"normalize_data_with_pearson">>
            ELSE <<>>)
        \o (IF norm_method \in {"log_cpm", "pearson"} THEN <<"apply_pca">> ELSE <<>>)

IsPrefix(s, t) == Len(s) <= Len(t) /\ \A i \in 1..Len(s) : s[i] = t[i]

\* the stage a run of preprocess_data is about to execute at position pc
StageAt(position) ==
    CASE position = "filter_low_magnitude" -> "filter_low_magnitude_genes"
      [] position = "filter_apoptosis" -> "filter_high_apoptosis_cells"
      [] position = "filter_rrna" -> "filter_high_rrna_cells"
      [] position = "filter_mito" -> "filter_high_mito_cells"
      [] position = "log_transform" -> "log_transform"
      [] position = "apply_pca" -> "apply_pca"
      [] OTHER -> "none"

\* C12: every successful run of preprocess_data has executed magnitude filter,
\* apoptosis filter, rRNA filter, mitochondrial filter, normalization and PCA,
\* in this order and each exactly once; at every moment the stages executed
\* are a prefix of that sequence and the stage about to start is the next one
\* of it (no skip, no re-entry), and library-size normalization never starts
\* before the mitochondrial filter has returned.
C12_StagesRunOnceInFixedOrder ==
    /\ call.op = "preprocess_data" =>
          /\ IsPrefix(stages, ExpectedStages(call.norm_method))
          /\ pc = "returned" => stages = ExpectedStages(call.norm_method)
          /\ StageAt(pc) # "none" =>
                /\ Len(stages) < Len(ExpectedStages(call.norm_method))
                /\ ExpectedStages(call.norm_method)[Len(stages) + 1] = StageAt(pc)
    /\ call.op \in {"preprocess_data", "pipeline.preprocess_data", "preprocess_sc_data"} =>
          \A i \in 1..Len(stages) :
              stages[i] = "normalize_by_library_size" =>
                  \E j \in 1..(i - 1) : stages[j] = "filter_high_mito_cells"

\* a complete log_cpm run in which the mitochondrial filter did filter
C12_Witness ==
    /\ call.op = "preprocess_data"
    /\ call.norm_method = "log_cpm"
    /\ pc = "returned"
    /\ Len(stages) = 7
    /\ MitoColumns(raw) # {}
    /\ Len(ret[1].index) < Len(raw.index)

\* ------------------------------------------------------------------- C13
RegisteredNames == <<"kmeans", "spectral">>

RegisteredFunction(name) ==
    CASE name = "kmeans" -> "kmeans_strategy"
      [] name = "spectral" -> "spectral_strategy"
      [] OTHER -> "none"

\* C13: get_clustering_strategy returns the registered function for a
\* registered name; for any other name it raises an error whose message says
\* that this algorithm was not found and lists every registered name; no
\* lookup changes the registry.
C13_LookupReturnsRegisteredOrNamesAvailable ==
    /\ registry = STRATEGY_REGISTRY
    /\ Keys(registry) = RegisteredNames
    /\ call.op = "get_clustering_strategy" =>
          IF call.arg \in Range(RegisteredNames)
          THEN /\ pc = "returned"
               /\ exc = "none"
               /\ ret = <<RegisteredFunction(call.arg)>>
               /\ message = <<>>
          ELSE /\ pc = "raised"
               /\ exc = "ValueError"
               /\ ret = <<>>
               /\ Len(message) = 4
               /\ message[1] = "Algorithm '"
               /\ message[2] = call.arg
               /\ message[3] = "' not found. Available: "
               /\ message[4] = RegisteredNames

\* the lookup of an unregistered name has failed
C13_Witness ==
    /\ call.op = "get_clustering_strategy"
    /\ call.arg = "dbscan"
    /\ pc = "raised"
    /\ message # <<>>

\* ------------------------------------------------------------------- C14
\* the value the dataset configuration supplies for a field, or the default
ConfiguredSpecies ==
    IF fs.config.exists /\ "species" \in DOMAIN fs.config.fields
    THEN fs.config.fields["species"].s ELSE "human"
ConfiguredNClusters ==
    IF fs.config.exists /\ "n_clusters" \in DOMAIN fs.config.fields
    THEN fs.config.fields["n_clusters"].i ELSE 5

\* the run has read its field of the configuration
SpeciesRead == run.op = "run_preprocessing" /\ "load_dataset_config" \in Range(run.steps)
NClustersRead == run.op = "run_experiment" /\ "get_clustering_strategy" \in Range(run.steps)

\* C14 as stated: whatever the dataset configuration is (no config.yaml, one
\* without any field, one lacking species and/or n_clusters), loading it and
\* reading its fields raises nothing in run_preprocessing and run_experiment,
\* which use species = "human" and n_clusters = 5 for an absent field and the
\* supplied value for a present one.
C14_AbsentConfigFieldsFallBackToDefaults ==
    /\ run.op \in {"run_preprocessing", "run_experiment"} => exc # "AttributeError"
    /\ (SpeciesRead /\ run.pos # "failed") => run.species = ConfiguredSpecies
    /\ (run.op = "run_preprocessing" /\ call.op = "preprocess_data") =>
          call.species = ConfiguredSpecies
    /\ (NClustersRead /\ run.pos # "failed") => run.n_clusters = ConfiguredNClusters

\* ------------------------------------------------------------------- C15
ExpectedRawPath(accession) ==
    <<"project_root", "data", accession, "raw", <<accession, ".csv.gz">>>>

\* C15: a run whose raw input file is absent fails with a FileNotFoundError
\* whose message holds the expected path; it has loaded no configuration and
\* no data, has run no filter or normalization stage, and has created neither
\* a results directory nor an output file.
C15_MissingRawFileIsFatalBeforeAnyWork ==
    (run.op \in {"run_preprocessing", "pipeline.run_experiment"}
        /\ run.accession \notin fs.raw) =>
        /\ pc = "raised"
        /\ run.pos = "failed"
        /\ exc = "FileNotFoundError"
        /\ message = <<"Expected file not found: ", ExpectedRawPath(run.accession)>>
        /\ run.steps = <<>>
        /\ run.config = PyNone
        /\ call = NoCall
        /\ stages = <<>>
        /\ ret = <<>>
        /\ fs.artifacts \in StoredArtifacts
        /\ fs.results_dir = {a.accession : a \in fs.artifacts}
        /\ ~ENABLED NextRuns

\* run_preprocessing has failed on a missing raw file although an unreadable
\* (empty) config.yaml was waiting to be loaded
C15_Witness ==
    /\ run.op = "run_preprocessing"
    /\ run.accession = "GSE2"
    /\ fs.raw = {"GSE1"}
    /\ fs.config = EmptyConfigFile
    /\ exc = "FileNotFoundError"
    /\ fs.artifacts = {}

\* ------------------------------------------------------------------- C16
ExpectedPcColumns(n) ==
    CASE n = 1 -> <<"PC1">>
      [] n = 2 -> <<"PC1", "PC2">>
      [] n = 3 -> <<"PC1", "PC2", "PC3">>
      [] OTHER -> <<>>

\* the result has the cells of frame, in order, and the columns PC1..PCn
IsReductionOf(out, frame, n) ==
    /\ out.index = frame.index
    /\ out.columns = ExpectedPcColumns(n)
    /\ DOMAIN out.val = Range(frame.index) \X Range(ExpectedPcColumns(n))

\* C16 as stated: for every input matrix and every positive n_components
\* apply_pca returns a matrix with the input's cells, in order, and exactly
\* n_components columns PC1..PC<n_components>.
C16_PcaReturnsNComponentsForEveryInput ==
    call.op = "apply_pca" =>
        /\ pc = "returned"
        /\ IsReductionOf(ret[1], raw, call.arg)

\* C16 amended: apply_pca returns the input's cells, in order, with the
\* columns PC1..PC<n_components> exactly when 1 <= n_components <=
\* min(number of cells, number of genes); for a larger n_components it raises
\* a ValueError and returns nothing.
C16_PcaReturnsNComponentsUpToRank ==
    call.op = "apply_pca" =>
        IF call.arg <= Len(raw.index) /\ call.arg <= Len(raw.columns)
        THEN /\ pc = "returned"
             /\ exc = "none"
             /\ IsReductionOf(ret[1], raw, call.arg)
        ELSE /\ pc = "raised"
             /\ exc = "ValueError"
             /\ ret = <<>>

\* three components were asked of a matrix of three cells and two genes
C16_Witness ==
    /\ call.op = "apply_pca"
    /\ call.arg = 3
    /\ Len(raw.index) = 3
    /\ Len(raw.columns) = 2
    /\ pc = "raised"

\* ------------------------------------------------------------------- C17
\* C17 as stated: the PCA solver and every registered clustering strategy
\* (kmeans, spectral) run with a fixed random seed, so any two calls with the
\* same input matrix and the same configuration give the same reduced matrix
\* and the same label of every cell.
C17_RepeatedRunsGiveTheSameResult ==
    \A a, b \in observed :
        (a.fn = b.fn /\ a.arg = b.arg) => a.result = b.result

\* ------------------------------------------------------------------- C18
StageFunctions ==
    {"filter_low_magnitude_genes", "filter_high_mito_cells",
     "filter_cells_by_fraction", "normalize_by_library_size", "log_transform",
     "normalize_data_with_pearson", "apply_pca"}

\* a stage function called on raw has returned
StageReturned == pc = "returned" /\ call.op \in StageFunctions

\* the call was a fraction filter none of whose genes is a column of raw
CallFoundNoGene ==
    \/ /\ call.op = "filter_high_mito_cells"
       /\ Len(get_gene_set(raw, MT_PREFIX)) = 0
    \/ /\ call.op = "filter_cells_by_fraction"
       /\ Range(call.gene_list) \cap Range(raw.columns) = {}

\* C18 as stated: no stage changes the matrix it is given, and the result of
\* every stage is a fresh matrix, never the input object itself.
C18_EveryStageReturnsAFreshMatrix ==
    /\ [][raw' = raw]_vars
    /\ [](StageReturned => ~aliased)

\* C18 amended: no stage changes the matrix it is given; the result is a
\* fresh matrix except when a fraction filter finds none of its genes among
\* the columns, and then the result is the input object itself.
C18_StagesLeaveInputAloneAndAliasOnlyOnSkip ==
    /\ [][raw' = raw]_vars
    /\ [](StageReturned => (aliased <=> CallFoundNoGene))
    /\ [](aliased => ret[1] = raw)

\* the mitochondrial filter found no MT- column and returned its input object
C18_Witness ==
    /\ StageReturned
    /\ call.op = "filter_high_mito_cells"
    /\ aliased
    /\ ret[1] = raw
    /\ warnings = 1

\* ------------------------------------------------------------------- C19
\* preprocess_data(magnitude_data, "log_cpm", species, 1) is running or done
ToyRun ==
    /\ raw = magnitude_data
    /\ call.op = "preprocess_data"
    /\ call.norm_method = "log_cpm"
    /\ call.n_components = 1

\* C19: on the 3 x 3 matrix with one all-zero gene, one 0/1 gene and one gene
\* with real signal, preprocess_data with the log_cpm branch and one
\* component raises nothing; from the magnitude filter on only the
\* real-signal gene is left and all 3 cells stay, and the matrix returned has
\* the 3 input cells as rows and the single column PC1.
C19_ToyMatrixReducesToOneComponent ==
    ToyRun =>
        /\ pc # "raised"
        /\ exc = "none"
        /\ pc \notin {"filter_low_magnitude", "returned"} =>
              /\ data.columns = <<"High_Expr">>
              /\ data.index = raw.index
        /\ pc = "log_transform" =>
              \A c \in Range(data.index) :
                  data.val[<<c, "High_Expr">>]
                      = (IF c = 3 THEN Zero ELSE Int2V(CPM_RESCALE))
        /\ pc = "returned" =>
              /\ Len(ret) = 1
              /\ ret[1].index = raw.index
              /\ ret[1].columns = <<"PC1">>
              /\ stages = ExpectedStages("log_cpm")

\* the run on the toy matrix has returned its 3 x 1 matrix
C19_Witness ==
    /\ ToyRun
    /\ pc = "returned"
    /\ Len(ret[1].index) = 3
    /\ ret[1].columns = <<"PC1">>
    /\ warnings = 3

\* ------------------------------------------------------------------- C20
\* preprocess_data runs on a matrix none of whose genes reaches the default
\* min_count
ZeroGeneRun ==
    /\ call.op = "preprocess_data"
    /\ filter_low_magnitude_genes(raw, DEFAULT_MIN_COUNT).columns = <<>>

\* the magnitude filter has returned all cells and no gene, and the stages
\* after it have kept that shape
ZeroGeneMatrixPropagates ==
    pc # "filter_low_magnitude" =>
        /\ data.index = raw.index
        /\ data.columns = <<>>

Min(a, b) == IF a <= b THEN a ELSE b

\* gene h has a larger residual variance than gene g (a gene whose variance
\* is nan ranks below every gene with a number)
RanksAbove(h, g) ==
    LET vh == ResidualVariance(raw, h)
        vg == ResidualVariance(raw, g)
    IN  vh.k = "num" /\ (vg.k = "nan" \/ vh.n * vg.d > vg.n * vh.d)

\* C21: normalize_data_with_pearson returns exactly the input cells as rows
\* and min(n_hvg, number of genes) of the input genes as columns, no gene
\* left out ranking above a gene returned, and the values returned are the
\* residuals, not the counts.
C21_PearsonReturnsResidualsOfTopRankedGenes ==
    Returned("normalize_data_with_pearson") =>
        /\ ret[1].index = raw.index
        /\ Range(ret[1].columns) \subseteq Range(raw.columns)
        /\ Len(ret[1].columns) = Min(call.arg, Len(raw.columns))
        /\ Cardinality(Range(ret[1].columns)) = Len(ret[1].columns)
        /\ \A g \in Range(ret[1].columns) :
              \A h \in Range(raw.columns) \ Range(ret[1].columns) : ~RanksAbove(h, g)
        /\ \A p \in DOMAIN ret[1].val :
              /\ ret[1].val[p].k = "resid"
              /\ ret[1].val[p] = Residual(raw.val[p])

\* one gene of three was returned, the last column, which ranks strictly
\* above both genes left out
C21_Witness ==
    /\ Returned("normalize_data_with_pearson")
    /\ call.arg = 1
    /\ ret[1].columns = <<"BAX">>
    /\ RanksAbove("BAX", "ACTB")
    /\ RanksAbove("BAX", "GAPDH")
    /\ ResidualVariance(raw, "ACTB").k = "num"
    /\ ResidualVariance(raw, "ACTB").n > 0

\* ------------------------------------------------------------------- C22
\* k of the call: int(genes * percentile) when percentile is given, else
\* n_top_genes when it is given, else 2000
RequestedGenes ==
    LET n_top_genes == call.arg[1]
        percentile == call.arg[2]
    IN  IF percentile # PyNone
        THEN (Len(raw.columns) * percentile.v.n) \div percentile.v.d
        ELSE IF n_top_genes # PyNone THEN n_top_genes.i
        ELSE 2000

\* the variance of gene h is larger than that of gene g
MoreVariable(h, g) == VLess(GeneVariance(raw, g), GeneVariance(raw, h))

\* C22: select_hvg_by_variance returns the min(k, number of genes) genes of
\* highest variance, in order of descending variance, with all cells in
\* their order and their values, for k >= 0 taken from percentile, else from
\* n_top_genes, else 2000; genes of equal variance are still returned up to
\* that number.
C22_SelectHvgReturnsTopKByVariance ==
    (Returned("select_hvg_by_variance") /\ RequestedGenes >= 0) =>
        LET top == ret[1].columns
        IN  /\ ret[1].index = raw.index
            /\ Len(top) = Min(RequestedGenes, Len(raw.columns))
            /\ Range(top) \subseteq Range(raw.columns)
            /\ Cardinality(Range(top)) = Len(top)
            /\ \A i, j \in 1..Len(top) : i < j => ~MoreVariable(top[j], top[i])
            /\ \A g \in Range(top) :
                  \A h \in Range(raw.columns) \ Range(top) : ~MoreVariable(h, g)
            /\ \A p \in DOMAIN ret[1].val : ret[1].val[p] = raw.val[p]

\* test_select_hvg_by_fixed_count: the two most variable genes of hvg_data
C22_Witness ==
    /\ Returned("select_hvg_by_variance")
    /\ raw = hvg_data
    /\ call.arg = <<PyInt(2), PyNone>>
    /\ ret[1].columns = <<"Gene_High_Var", "Gene_Mid_Var">>
    /\ ret[1].index = <<1, 2, 3>>

\* ------------------------------------------------------------------- C23
\* a preprocess_data with a method selector was given an unrecognized method
\* and has raised
UnknownMethodRaised ==
    /\ call.op \in {"preprocess_data", "workflow.preprocess_data"}
    /\ call.norm_method \notin {"log_cpm", "pearson"}
    /\ pc = "raised"

\* C23 as stated: with an unrecognized normalization method preprocess_data
\* raises before any filter, normalization or reduction stage has been
\* executed on the data.
C23_UnknownMethodRaisesBeforeAnyStage ==
    UnknownMethodRaised => stages = <<>>

\* C23 amended: with an unrecognized normalization method preprocess_data
\* raises ValueError when it reaches the method selection, that is after the
\* four filter stages have run on the data and before any normalization or
\* reduction stage; no matrix is returned.
C23_UnknownMethodRaisesAfterTheFilters ==
    /\ UnknownMethodRaised =>
          /\ exc = "ValueError"
          /\ stages = FilterStages
          /\ ret = <<>>
    /\ (call.op \in {"preprocess_data", "workflow.preprocess_data"}
           /\ call.norm_method \notin {"log_cpm", "pearson"}) =>
          /\ pc # "returned"
          /\ IsPrefix(stages, FilterStages)
          /\ Len(stages) < 4 => pc # "raised"

\* workflow.preprocess_data("cpm") has raised after its four filters
C23_Witness ==
    /\ UnknownMethodRaised
    /\ call.op = "workflow.preprocess_data"
    /\ call.norm_method = "cpm"
    /\ exc = "ValueError"
    /\ Len(stages) = 4
    /\ data.columns # <<>>

\* ------------------------------------------------------------------- C24
\* run_experiment has passed the check of the preprocessed file
ExperimentProceeded == run.op = "run_experiment" /\ run.steps # <<>>

\* run_preprocessing(accession, norm_method) has completed earlier
PreprocessingCompleted(accession, norm_method) ==
    \E o \in observed :
        /\ o.fn = "run_preprocessing"
        /\ o.arg[1] = accession
        /\ o.arg[2] = norm_method
        /\ o.result = "done"

\* C24: in a data directory that starts without results, run_experiment gets
\* past its file check only after run_preprocessing has completed for the
\* same accession and the same norm_method; the file it reads is the file
\* run_preprocessing wrote under that name, and when the file is absent
\* run_experiment fails with FileNotFoundError before any other step and
\* without writing anything.
C24_ExperimentNeedsCompletedPreprocessing ==
    /\ [](ExperimentProceeded =>
             /\ PreprocessingCompleted(run.accession, run.norm_method)
             /\ HasArtifact(fs.artifacts, run.accession,
                            PreprocessedFilename(run.norm_method)))
    /\ []((run.op = "run_preprocessing" /\ run.pos = "done") =>
             Artifact(run.accession, PreprocessedFilename(run.norm_method), ret[1])
                 \in fs.artifacts)
    /\ []((run.op = "run_experiment"
              /\ ~HasArtifact(fs.artifacts, run.accession,
                              PreprocessedFilename(run.norm_method))) =>
             /\ run.pos = "failed"
             /\ pc = "raised"
             /\ exc = "FileNotFoundError"
             /\ run.steps = <<>>)
    /\ [][(run.op = "none" /\ run'.op = "run_experiment") =>
             /\ fs' = fs
             /\ run'.pos = "lookup" =>
                   run'.target_data =
                       <<ReadArtifact(fs.artifacts, run'.accession,
                                      PreprocessedFilename(run'.norm_method))>>]_vars

\* run_experiment clusters what an earlier run_preprocessing of the same
\* accession and method stored, while the other method was never preprocessed
C24_Witness ==
    /\ run.op = "run_experiment"
    /\ run.pos = "done"
    /\ PreprocessingCompleted(run.accession, run.norm_method)
    /\ \A m \in SessionMethods \ {run.norm_method} :
          ~HasArtifact(fs.artifacts, run.accession, PreprocessedFilename(m))
    /\ HasArtifact(fs.artifacts, run.accession,
                   ClusteredFilename(run.norm_method, run.algo_name))

\* ------------------------------------------------------------------- C25
\* the finished call is a fraction filter that found its genes on a matrix
\* with at least one cell and returned
FractionFilterApplied ==
    /\ IsFractionCall
    /\ pc = "returned"
    /\ GeneSetFound # {}
    /\ raw.index # <<>>

\* the cells of raw whose ratio no other cell exceeds
MaxRatioCells ==
    {c \in Range(raw.index) :
        \A x \in Range(raw.index) : ~RatioLess(raw, GeneSetFound, c, x)}

\* C25: whenever the gene set matches at least one column and the input has
\* at least one cell, the percentile-mode fraction filter removes at least
\* one cell, for every percentile: every cell holding the maximum ratio is
\* dropped, so when all cells have the same ratio the output has no cells.
C25_FractionFilterDropsEveryMaximumCell ==
    FractionFilterApplied =>
        /\ MaxRatioCells # {}
        /\ Range(ret[1].index) \cap MaxRatioCells = {}
        /\ Len(ret[1].index) < Len(raw.index)
        /\ (MaxRatioCells = Range(raw.index)) => ret[1].index = <<>>

\* two cells of equal, non-zero ratio are both removed at the percentile 0
C25_Witness ==
    /\ FractionFilterApplied
    /\ call.arg = 0
    /\ Len(raw.index) >= 2
    /\ MaxRatioCells = Range(raw.index)
    /\ \E c \in Range(raw.index) : RatioNum(raw, GeneSetFound, c) > 0
    /\ ret[1].index = <<>>

\* ------------------------------------------------------------------- C26
\* the stages of a run that select cells
CellFilterStages ==
    {"filter_high_apoptosis_cells", "filter_high_rrna_cells", "filter_high_mito_cells"}

\* a step of a preprocess_data run in which one more stage has been executed
StageStep == call.op = "preprocess_data" /\ Len(stages') = Len(stages) + 1

\* C26: across the stages of one preprocess_data run the cell identifiers
\* never grow and never change order: every stage outputs a subsequence of
\* its input's cells, the stages other than the cell filters output exactly
\* their input's cells, and the reduced matrix returned has exactly the cells
\* that were left by the last filter.
C26_CellsNeverGrowNorReorder ==
    /\ []((call.op = "preprocess_data") =>
             /\ IsSubsequence(data.index, raw.index)
             /\ pc = "returned" => ret[1].index = data.index)
    /\ [][StageStep =>
             /\ IsSubsequence(data'.index, data.index)
             /\ stages'[Len(stages')] \notin CellFilterStages => data'.index = data.index
             /\ stages'[Len(stages')] = "apply_pca" /\ pc' = "returned" =>
                   ret'[1].index = data.index]_vars

\* a run that lost its first cell in a filter and was reduced with the
\* remaining cells under their own identifiers
C26_Witness ==
    /\ call.op = "preprocess_data"
    /\ pc = "returned"
    /\ raw.index[1] \notin Range(ret[1].index)
    /\ ret[1].index # <<>>
    /\ ret[1].index = data.index
    /\ stages[Len(stages)] = "apply_pca"

\* ------------------------------------------------------------------- C27
Experiments == {"run_experiment", "pipeline.run_experiment"}

\* a run_experiment of either variant called with a name that is not a key
\* of the registry
UnregisteredRun(r) ==
    r.op \in Experiments /\ r.algo_name \notin Range(Keys(registry))

\* C27: run_experiment called with an unregistered algorithm name fails
\* without persisting anything, in the variant that clusters a stored
\* preprocessed matrix and in the variant that preprocesses in the same call:
\* it never reaches the clustering or the save, its lookup ends in a
\* ValueError, no file is written or overwritten and the matrix it loaded
\* gets no cluster column.
C27_UnregisteredAlgorithmPersistsNothing ==
    /\ [](UnregisteredRun(run) =>
             /\ run.pos \in {"load_config", "preprocess", "lookup", "failed"}
             /\ Range(run.steps) \cap {"cluster_func", "makedirs", "to_csv"} = {}
             /\ \A i \in 1..Len(run.target_data) :
                   "cluster" \notin Range(run.target_data[i].columns))
    /\ [][UnregisteredRun(run') =>
             /\ fs' = fs
             /\ (run.pos = "lookup" /\ run' # run) =>
                   /\ run'.pos = "failed"
                   /\ exc' = "ValueError"
                   /\ pc' = "raised"]_vars

\* the stored preprocessed matrix was found and loaded, and the lookup of
\* the unregistered name then ended the run
C27_Witness ==
    /\ run.op = "run_experiment"
    /\ UnregisteredRun(run)
    /\ run.pos = "failed"
    /\ exc = "ValueError"
    /\ "load_csv_data" \in Range(run.steps)
    /\ HasArtifact(fs.artifacts, run.accession, PreprocessedFilename(run.norm_method))
    /\ Cardinality(fs.artifacts) = 1

====
